---- MODULE Spec2Model ----
(***************************************************************************)
(* A model of asgineer's connection-state adapter: the HTTP exchange       *)
(* driver (asgineer/_app.py), the HttpRequest state machine and the        *)
(* RequestSet registry (asgineer/_request.py).                             *)
(*                                                                         *)
(* Python values are records [t, n, v, h, g]: t the type tag, n an int     *)
(* value, v a sequence of code points / bytes, h a header mapping (a       *)
(* sequence of [k, v, isstr] items, in dict order) and g the items an      *)
(* async generator produces.                                               *)
(*                                                                         *)
(* BaseApplication.__call__ builds the request as HttpRequest(scope,       *)
(* receive) while HttpRequest.__init__ takes (scope, receive, send); the   *)
(* model binds request._send to the transport's send, the only send the    *)
(* application call has.                                                   *)
(***************************************************************************)
EXTENDS Integers, Sequences, FiniteSets, TLC

\* ---------------------------------------------------------------- bounds
\* number of request-method calls an HTTP handler makes
MaxOps == 3
\* number of items an async generator result produces
MaxChunks == 2
\* number of times _destroy runs on one request
MaxDestroy == 2
\* number of sleep_while_connected calls made, on all requests together
MaxSleeps == 3
\* number of calls a handler makes to read the body
MaxCalls == 3
\* number of http.request messages a client sends for one body
MaxBodyChunks == 2
\* largest byte limit given to get_body
MaxLimit == 3
\* number of request-method calls a WebSocket handler makes
MaxWsOps == 4
\* number of websocket.receive messages a client sends
MaxWsMsgs == 2
\* number of normalize_response calls made on one response
MaxNormCalls == 3
\* number of lifespan messages a server sends
MaxLifeMsgs == 4
\* number of body reads made besides the sleeps, on all requests together
MaxReads == 3
\* number of loops over a RequestSet that the broadcasting task makes
MaxLoops == 1
\* number of send() calls of a handler that sleeps and reads in turn
MaxSends == 2
\* number of exchanges whose handlers return the same header mapping
MaxExchanges == 2

\* ------------------------------------------------------------- constants
CONNECTING == 0

CONNECTED == 1

DONE == 2

DISCONNECTED == 3

Reqs == {"r1", "r2"}

SetIds == {"s1", "s2"}

VARIABLES
    pc,             \* position of the exchange driver task
    app_state,      \* HttpRequest._app_state
    client_state,   \* HttpRequest._client_state
    wire,           \* messages handed to the transport's send(), in order
    inbox,          \* messages the transport's receive() will still deliver
    exc,            \* exception raised inside the handler, not yet handled
    log,            \* records written with logger.error
    nops,           \* request-method calls the handler has made
    start_is_sent,  \* local of _handle_http (chunked branch)
    gen,            \* items the async generator body will still produce
    start,          \* local of _handle_http: the start message to send
    ret,            \* local of _handle_http: the value the handler returned
    s_,             \* RequestSet._s of every RequestSet
    request_sets,   \* BaseRequest._request_sets of every request
    live,           \* request objects that are still referenced
    destroyed,      \* number of times _destroy ran, per request
    torn,           \* requests whose _destroy ran, not added to a set since
    last,           \* the call made by the latest step: [op, t]
    http,           \* the HttpRequest objects used outside a driver, per request
    req,            \* the HttpRequest whose body a handler reads
    ws,             \* the WebsocketRequest of a WebSocket exchange and its driver
    norm,           \* the calls of normalize_response made on one response
    life,           \* the lifespan exchange: what the server sends and what the driver replied
    bc,             \* a task that iterates a RequestSet and sends to each member
    shared          \* a header mapping that a handler returns in several exchanges

vars == <<pc, app_state, client_state, wire, inbox, exc, log, nops,
          start_is_sent, gen, start, ret, s_, request_sets, live, destroyed, torn,
          last, http, req, ws, norm, life, bc, shared>>

httpVars == <<pc, app_state, client_state, wire, inbox, exc, log, nops,
              start_is_sent, gen, start, ret>>

setVars == <<s_, request_sets, live, destroyed, torn>>

\* the objects that the exchange driver and the RequestSet operations leave alone
aside == <<http, req, ws, norm, life, bc, shared>>

\* ---------------------------------------------------------- Python values
PyVal(t, n, v, h, g) == [t |-> t, n |-> n, v |-> v, h |-> h, g |-> g]

PyNone == PyVal("NoneType", 0, <<>>, <<>>, <<>>)

PyInt(n) == PyVal("int", n, <<>>, <<>>, <<>>)

PyBytes(v) == PyVal("bytes", 0, v, <<>>, <<>>)

PyStr(v) == PyVal("str", 0, v, <<>>, <<>>)

PyDict(h) == PyVal("dict", 0, <<>>, h, <<>>)

PyAsyncGen(g) == PyVal("async_generator", 0, <<>>, <<>>, g)

PyGenerator == PyVal("generator", 0, <<>>, <<>>, <<>>)

PyList == PyVal("list", 0, <<>>, <<>>, <<>>)

\* what an async generator does instead of yielding: raise an exception
GenRaise == PyVal("<raise>", 0, <<>>, <<>>, <<>>)

\* one item of a dict: key k (a str), value v of Python type vt
Item(k, vt, v) == [k |-> k, vt |-> vt, v |-> v]

NoExc == [type |-> "", msg |-> ""]

Exc(t, m) == [type |-> t, msg |-> m]

\* str.encode(): UTF-8, one byte below 128 and two bytes for the code points
\* below 2048.
Utf8(c) == IF c < 128 THEN <<c>> ELSE <<192 + (c \div 64), 128 + (c % 64)>>

RECURSIVE Encode(_)
Encode(v) == IF v = <<>> THEN <<>> ELSE Utf8(Head(v)) \o Encode(Tail(v))

\* The code points of the strings that occur as dict keys and values.
StrCodes(s) ==
    CASE s = "x" -> <<120>>
      [] s = "3" -> <<51>>
      [] s = "xx-foo" -> <<120, 120, 45, 102, 111, 111>>
      [] s = "content-type" -> <<99, 111, 110, 116, 101, 110, 116, 45, 116, 121, 112, 101>>
      [] s = "text/x" -> <<116, 101, 120, 116, 47, 120>>
      [] OTHER -> <<>>

HasKey(h, k) == \E i \in 1..Len(h) : h[i].k = k

\* [(k.encode(), v.encode()) for k, v in headers.items()]; it raises when a
\* value is not a str.
HeadersEncodable(h) == \A i \in 1..Len(h) : h[i].vt = "str"

RawHeaders(h) == [i \in 1..Len(h) |-> <<h[i].k, h[i].v>>]

\* ------------------------------------------------------------- messages
StartMsg(status, rawheaders) ==
    [type |-> "http.response.start", status |-> status, headers |-> rawheaders,
     body |-> <<>>, text |-> NoExc, where |-> "", more_body |-> FALSE]

BodyMsg(body, more) ==
    [type |-> "http.response.body", status |-> 0, headers |-> <<>>,
     body |-> body, text |-> NoExc, where |-> "", more_body |-> more]

\* a body message carrying error_text.encode(); the text is kept as the
\* exception and the phrase that names the phase
ErrorBodyMsg(err, where) ==
    [type |-> "http.response.body", status |-> 0, headers |-> <<>>,
     body |-> <<>>, text |-> err, where |-> where, more_body |-> FALSE]

InMsg(type, body, more) == [type |-> type, body |-> body, more_body |-> more]

HttpRequestMsg(body, more) == InMsg("http.request", body, more)

HttpDisconnect == InMsg("http.disconnect", <<>>, FALSE)

\* a transport whose receive() returns None
NoneMsg == InMsg("None", <<>>, FALSE)

LogRec(where, err) == [where |-> where, err |-> err]

\* ------------------------------------------------- response processing
\* A handler's return value is [tuple, elems]: a Python tuple of the values
\* elems, or (tuple = FALSE) the single value elems[1].
Resp(tuple, elems) == [tuple |-> tuple, elems |-> elems]

NormOk_resolved(status, headers, body) ==
    [ok |-> TRUE, status |-> status, headers |-> headers,
     body |-> IF body.g = <<>> THEN body ELSE PyAsyncGen(Tail(body.g)),
     err |-> NoExc]

NormOk(status, headers, body) ==
    [ok |-> TRUE, status |-> status, headers |-> headers, body |-> body, err |-> NoExc]

NormErr(msg) ==
    [ok |-> FALSE, status |-> PyNone, headers |-> PyNone, body |-> PyNone,
     err |-> Exc("ValueError", msg)]

normalize_response_statusFirst(response) ==
    LET e == response.elems
        n == Len(e)
    IN  IF response.tuple /\ n \notin {1, 2, 3}
        THEN NormErr("Handler returned n-tuple.")
        ELSE LET status == IF response.tuple /\ n \in {2, 3} THEN e[1] ELSE PyInt(200)
                 headers == IF response.tuple /\ n = 3 THEN e[2] ELSE PyDict(<<>>)
                 body == IF response.tuple THEN e[n] ELSE e[1]
             IN  IF status.t # "int"
                 THEN NormErr("Status code must be an int")
                 ELSE IF headers.t # "dict"
                 THEN NormErr("Headers must be a dict")
                 ELSE NormOk(status, headers, body)

normalize_response(response) ==
    LET e == response.elems
        n == Len(e)
    IN  IF response.tuple /\ n \notin {1, 2, 3}
        THEN NormErr("Handler returned n-tuple.")
        ELSE LET status == IF response.tuple /\ n = 3 THEN e[1] ELSE PyInt(200)
                 headers == IF response.tuple /\ n = 3 THEN e[2]
                            ELSE IF response.tuple /\ n = 2 THEN e[1]
                            ELSE PyDict(<<>>)
                 body == IF response.tuple THEN e[n] ELSE e[1]
             IN  IF status.t # "int"
                 THEN NormErr("Status code must be an int")
                 ELSE IF headers.t # "dict"
                 THEN NormErr("Headers must be a dict")
                 ELSE NormOk(status, headers, body)

StartsWith(v, prefix) ==
    /\ Len(v) >= Len(prefix)
    /\ \A i \in 1..Len(prefix) : v[i] = prefix[i]

\* "<!DOCTYPE html>", "<!doctype html>", "<html>"
HtmlMarkers ==
    { <<60, 33, 68, 79, 67, 84, 89, 80, 69, 32, 104, 116, 109, 108, 62>>,
      <<60, 33, 100, 111, 99, 116, 121, 112, 101, 32, 104, 116, 109, 108, 62>>,
      <<60, 104, 116, 109, 108, 62>> }

guess_content_type_from_body(body) ==
    IF body.t = "str"
    THEN IF \E m \in HtmlMarkers : StartsWith(body.v, m)
         THEN "text/html" ELSE "text/plain"
    ELSE IF body.t = "dict" THEN "application/json"
    ELSE "application/octet-stream"

\* json.dumps(body): fails on a value that is neither str nor int
JsonSerializable(h) == \A i \in 1..Len(h) : h[i].vt \in {"str", "int"}

JsonItem(it) ==
    <<34>> \o StrCodes(it.k) \o <<34, 58, 32>> \o
    (IF it.vt = "str" THEN <<34>> \o StrCodes(it.v) \o <<34>> ELSE StrCodes(it.v))

RECURSIVE JsonItems(_)
JsonItems(h) ==
    IF h = <<>> THEN <<>>
    ELSE IF Len(h) = 1 THEN JsonItem(h[1])
    ELSE JsonItem(h[1]) \o <<44, 32>> \o JsonItems(Tail(h))

JsonDumps(h) == <<123>> \o JsonItems(h) \o <<125>>

SetDefault_never(h, k, v) == h

\* headers.setdefault(k, v) and headers[k] = v for an absent key
SetDefault(h, k, v) == IF HasKey(h, k) THEN h ELSE Append(h, Item(k, "str", v))

ProcOk(status, headers, body) ==
    [ok |-> TRUE, status |-> status, headers |-> headers, body |-> body, err |-> NoExc]

ProcErr(err) ==
    [ok |-> FALSE, status |-> 0, headers |-> <<>>, body |-> PyNone, err |-> err]

\* lines 183-219 of _handle_http: from the handler's result to
\* (status, headers, body) with the body converted, or the error raised
ProcessOutput(result) ==
    LET nr == normalize_response(result)
    IN  IF ~nr.ok THEN ProcErr(nr.err)
        ELSE
        LET h1 == SetDefault(nr.headers.h, "content-type",
                             guess_content_type_from_body(nr.body))
            b == nr.body
        IN  IF b.t = "dict" /\ ~JsonSerializable(b.h)
            THEN ProcErr(Exc("ValueError", "Could not JSON encode body"))
            ELSE IF b.t = "generator"
            THEN ProcErr(Exc("ValueError", "Body cannot be a regular generator, use an async generator."))
            ELSE IF b.t \notin {"bytes", "str", "dict", "async_generator"}
            THEN ProcErr(Exc("ValueError", "Body cannot be this type."))
            ELSE
            LET body == IF b.t = "str" THEN PyBytes(Encode(b.v))
                        ELSE IF b.t = "dict" THEN PyBytes(JsonDumps(b.h))
                        ELSE b
                h2 == IF body.t = "bytes"
                      THEN SetDefault(h1, "content-length", ToString(Len(body.v)))
                      ELSE h1
            IN  IF ~HeadersEncodable(h2)
                THEN ProcErr(Exc("ValueError", "Header keys and values must all be strings."))
                ELSE ProcOk(nr.status.n, h2, body)

\* the contents of the dict that normalize_response returned as headers,
\* after lines 186-215 of _handle_http have run on it: the content type is
\* stored before the body is converted, the content length after it
HeadersAfter_copied(nr) == nr.headers.h

HeadersAfter(nr) ==
    LET b == nr.body
        h1 == SetDefault(nr.headers.h, "content-type",
                         guess_content_type_from_body(b))
        converts == /\ b.t \in {"bytes", "str", "dict", "async_generator"}
                    /\ b.t = "dict" => JsonSerializable(b.h)
    IN  IF ~converts THEN h1
        ELSE IF b.t = "async_generator" THEN h1
        ELSE SetDefault(h1, "content-length",
                 ToString(Len(IF b.t = "str" THEN Encode(b.v)
                              ELSE IF b.t = "dict" THEN JsonDumps(b.h)
                              ELSE b.v)))

\* ---------------------------------------------------------------------
\* Exchanges whose handlers return the same dict object as headers, as a
\* handler does that keeps its headers in a module-level constant.  made is
\* what the handler put in the dict, headers what the dict holds now, outs
\* the body that each exchange returned with what _handle_http made of it.
NewShared(h) == [made |-> h, headers |-> h, outs |-> <<>>]

IdleShared == NewShared(<<>>)

\* the handler returns (200, HEADERS, body) and lines 183-219 of
\* _handle_http run on it
SharedExchange(body) ==
    /\ Len(shared.outs) < MaxExchanges
    /\ LET result == Resp(TRUE, <<PyInt(200), PyDict(shared.headers), body>>)
           nr == normalize_response(result)
       IN  shared' = [shared EXCEPT
                        !.headers = IF nr.ok THEN HeadersAfter(nr) ELSE @,
                        !.outs = Append(@, [body |-> body,
                                            out |-> ProcessOutput(result)])]

\* ------------------------------------------------------------ HttpRequest
Call(op, t) == [op |-> op, t |-> t]

\* HttpRequest.accept, "Check status"
AlreadyAccepted_never == FALSE

AlreadyAccepted == app_state # CONNECTING

\* HttpRequest.accept(status, headers)
accept(status, headers) ==
    /\ last' = Call("accept", status.t)
    /\ IF AlreadyAccepted
       THEN /\ exc' = Exc("OSError", "Cannot accept an already accepted connection.")
            /\ UNCHANGED <<app_state, wire>>
       ELSE IF status.t # "int"
       THEN /\ exc' = Exc("TypeError", "int() argument must be a number")
            /\ UNCHANGED <<app_state, wire>>
       ELSE IF ~HeadersEncodable(headers)
       THEN /\ exc' = Exc("TypeError", "Header keys and values must all be strings.")
            /\ UNCHANGED <<app_state, wire>>
       ELSE /\ app_state' = CONNECTED
            /\ wire' = Append(wire, StartMsg(status.n, RawHeaders(headers)))
            /\ exc' = NoExc

\* HttpRequest.send, the state in which the message is sent
CanSend_unlessDone == app_state # DONE

CanSend_onceAccepted == app_state >= CONNECTED

CanSend == app_state = CONNECTED

\* HttpRequest.send(data, more)
send(data, more) ==
    /\ last' = Call("send", data.t)
    /\ IF data.t \notin {"str", "bytes"}
       THEN /\ exc' = Exc("TypeError", "Can only send bytes/str over http")
            /\ UNCHANGED <<app_state, wire>>
       ELSE IF CanSend
       THEN /\ app_state' = IF ~more THEN DONE ELSE app_state
            /\ wire' = Append(wire,
                   BodyMsg(IF data.t = "str" THEN Encode(data.v) ELSE data.v, more))
            /\ exc' = NoExc
       ELSE IF app_state = CONNECTING
       THEN /\ exc' = Exc("OSError", "Cannot send before calling accept.")
            /\ UNCHANGED <<app_state, wire>>
       ELSE /\ exc' = Exc("OSError", "Cannot send to a closed connection.")
            /\ UNCHANGED <<app_state, wire>>

\* HttpRequest._receive_chunk(); it suspends until the transport delivers
_receive_chunk ==
    IF client_state = DISCONNECTED
    THEN /\ exc' = Exc("OSError", "Cannot receive from connection that already disconnected.")
         /\ UNCHANGED <<client_state, inbox>>
    ELSE /\ inbox # <<>>
         /\ inbox' = Tail(inbox)
         /\ LET message == Head(inbox)
                mt == IF message.type = "None" THEN "http.disconnect" ELSE message.type
            IN  IF mt = "http.request"
                THEN /\ client_state' = IF ~message.more_body THEN DONE ELSE client_state
                     /\ exc' = NoExc
                ELSE /\ client_state' = DISCONNECTED
                     /\ exc' = Exc("DisconnectedError", "")

\* the first step of a fresh iteration over HttpRequest.iter_body()
iter_body ==
    /\ last' = Call("iter_body", "")
    /\ IF client_state = DONE
       THEN /\ exc' = Exc("OSError", "Cannot receive an http request that is already consumed.")
            /\ UNCHANGED <<client_state, inbox>>
       ELSE _receive_chunk

\* ------------------------------------------------------------- RequestSet
add_unrecorded(s, r) ==
    /\ request_sets' = request_sets
    /\ s_' = [s_ EXCEPT ![s] = @ \cup {r}]
    /\ torn' = torn \ {r}

\* RequestSet.add(request)
add(s, r) ==
    /\ request_sets' = [request_sets EXCEPT ![r] = @ \cup {s}]
    /\ s_' = [s_ EXCEPT ![s] = @ \cup {r}]
    /\ torn' = torn \ {r}

\* RequestSet.discard(request)
discard(s, r) == s_' = [s_ EXCEPT ![s] = @ \ {r}]

\* RequestSet.clear()
clear(s) == s_' = [s_ EXCEPT ![s] = {}]

\* BaseRequest._destroy()
_destroy(r) ==
    /\ s_' = [s \in SetIds |-> IF s \in request_sets[r] THEN s_[s] \ {r} ELSE s_[s]]
    /\ request_sets' = [request_sets EXCEPT ![r] = {}]
    /\ destroyed' = [destroyed EXCEPT ![r] = @ + 1]
    /\ torn' = torn \cup {r}

\* ------------------------------------------------------------ the inputs
\* the request whose exchange the driver runs
TheReq == "r1"

AcceptStatuses == {PyInt(200), PyInt(404), PyNone}

HeaderChoices ==
    { <<>>, <<Item("xx-foo", "str", "x")>>, <<Item("xx-foo", "int", "3")>> }

SendData == {PyBytes(<<104>>), PyStr(<<233>>), PyDict(<<>>)}

GenItems == {PyStr(<<102>>), PyBytes(<<98>>), PyInt(3), GenRaise}

RECURSIVE SeqsUpTo(_, _)
SeqsUpTo(S, n) ==
    IF n = 0 THEN {<<>>}
    ELSE LET shorter == SeqsUpTo(S, n - 1)
         IN  shorter \cup {Append(q, x) : q \in shorter, x \in S}

\* the async generators a handler can return: only the last item may fail
GenScripts ==
    {g \in SeqsUpTo(GenItems, MaxChunks) :
        \A i \in 1..(Len(g) - 1) : g[i].t \in {"str", "bytes"}}

ResultBodies ==
    {PyNone, PyBytes(<<104, 105>>), PyStr(<<104, 233>>), PyInt(0), PyGenerator,
     PyDict(<<Item("x", "int", "3")>>), PyDict(<<Item("x", "object", "x")>>)}
    \cup {PyAsyncGen(g) : g \in GenScripts}

\* the bodies returned together with headers or a status
TupleBodies ==
    {PyStr(<<104, 233>>), PyDict(<<Item("x", "int", "3")>>),
     PyAsyncGen(<<PyStr(<<102>>)>>), PyAsyncGen(<<PyStr(<<102>>), GenRaise>>),
     PyAsyncGen(<<PyInt(3)>>)}

ResultHeaders ==
    {PyDict(h) : h \in HeaderChoices}
    \cup {PyDict(<<Item("content-type", "str", "text/x")>>), PyInt(4),
          PyDict(<<Item("content-length", "str", "5")>>)}

ResultStatuses == {PyInt(200), PyInt(404), PyStr(<<50, 48, 48>>)}

Results ==
    {Resp(FALSE, <<b>>) : b \in ResultBodies \cup {PyList}}
    \cup {Resp(TRUE, <<b>>) : b \in ResultBodies}
    \cup {Resp(TRUE, <<h, b>>) : h \in ResultHeaders, b \in TupleBodies}
    \cup {Resp(TRUE, <<st, h, b>>) : st \in ResultStatuses, h \in ResultHeaders,
                                     b \in TupleBodies}
    \cup {Resp(TRUE, <<PyInt(200), PyDict(<<>>), PyStr(<<102>>), PyStr(<<98>>)>>)}

\* what the client sends during the exchange
ClientScripts ==
    { <<HttpRequestMsg(<<>>, FALSE)>>,
      <<HttpRequestMsg(<<97>>, TRUE), HttpRequestMsg(<<98>>, FALSE)>>,
      <<HttpRequestMsg(<<97>>, FALSE), HttpDisconnect>>,
      <<HttpDisconnect>>,
      <<HttpRequestMsg(<<>>, FALSE), NoneMsg>> }

\* ------------------------------------------------------------ the handler
Running == pc = "handler" /\ exc = NoExc /\ nops < MaxOps

HandlerAccept ==
    /\ Running
    /\ \E status \in AcceptStatuses, headers \in HeaderChoices : accept(status, headers)
    /\ nops' = nops + 1
    /\ UNCHANGED <<pc, client_state, inbox, log, start_is_sent, gen, start, ret>>
    /\ UNCHANGED setVars
    /\ UNCHANGED aside

HandlerSend ==
    /\ Running
    /\ \E data \in SendData, more \in BOOLEAN : send(data, more)
    /\ nops' = nops + 1
    /\ UNCHANGED <<pc, client_state, inbox, log, start_is_sent, gen, start, ret>>
    /\ UNCHANGED setVars
    /\ UNCHANGED aside

HandlerIterBody ==
    /\ Running
    /\ iter_body
    /\ nops' = nops + 1
    /\ UNCHANGED <<pc, app_state, wire, log, start_is_sent, gen, start, ret>>
    /\ UNCHANGED setVars
    /\ UNCHANGED aside

\* the handler registers its request in a RequestSet
HandlerSetAdd ==
    /\ Running
    /\ \E s \in SetIds : add(s, TheReq)
    /\ nops' = nops + 1
    /\ last' = Call("add", "")
    /\ UNCHANGED <<pc, app_state, client_state, wire, inbox, exc, log,
                   start_is_sent, gen, start, ret, live, destroyed>>
    /\ UNCHANGED aside

\* the handler raises an exception of its own
HandlerRaise ==
    /\ pc = "handler" /\ exc = NoExc
    /\ exc' = Exc("Exception", "woops")
    /\ last' = Call("raise", "")
    /\ UNCHANGED <<pc, app_state, client_state, wire, inbox, log, nops,
                   start_is_sent, gen, start, ret>>
    /\ UNCHANGED setVars
    /\ UNCHANGED aside

\* the handler catches the exception a request method raised
HandlerCatch ==
    /\ pc = "handler" /\ exc # NoExc
    /\ exc' = NoExc
    /\ last' = Call("except", "")
    /\ UNCHANGED <<pc, app_state, client_state, wire, inbox, log, nops,
                   start_is_sent, gen, start, ret>>
    /\ UNCHANGED setVars
    /\ UNCHANGED aside

\* ------------------------------------------------- BaseApplication driver
Error500_bodyOnly(err, where) == <<ErrorBodyMsg(err, where)>>

\* the two messages of every error response of _handle_http
Error500(err, where) == <<StartMsg(500, <<>>), ErrorBodyMsg(err, where)>>

\* _handle_http, "except Exception" around the handler call
HandleHttpExcept ==
    /\ pc = "handler" /\ exc # NoExc
    /\ log' = Append(log, LogRec("request handler", exc))
    /\ wire' = wire \o Error500(exc, "request handler")
    /\ pc' = "returned"
    /\ last' = Call("handler raised", exc.type)
    /\ UNCHANGED <<app_state, client_state, inbox, exc, nops, start_is_sent, gen, start, ret>>
    /\ UNCHANGED setVars
    /\ UNCHANGED aside

\* _handle_http from the handler's return up to the first await of the
\* "send response" part
HandleHttpResult ==
    /\ pc = "handler" /\ exc = NoExc
    /\ \E result \in Results :
        LET po == ProcessOutput(result)
        IN  /\ last' = Call("handler returned", result.elems[Len(result.elems)].t)
            /\ IF ~po.ok
               THEN /\ log' = Append(log, LogRec("processing handler output", po.err))
                    /\ wire' = wire \o Error500(po.err, "processing handler output")
                    /\ pc' = "returned"
                    /\ UNCHANGED <<start_is_sent, gen, start>>
               ELSE IF po.body.t = "bytes"
               THEN /\ wire' = wire \o <<StartMsg(po.status, RawHeaders(po.headers)),
                                         BodyMsg(po.body.v, FALSE)>>
                    /\ pc' = "returned"
                    /\ start' = StartMsg(po.status, RawHeaders(po.headers))
                    /\ UNCHANGED <<log, start_is_sent, gen>>
               ELSE /\ start' = StartMsg(po.status, RawHeaders(po.headers))
                    /\ gen' = po.body.g
                    /\ start_is_sent' = FALSE
                    /\ pc' = "chunked"
                    /\ UNCHANGED <<log, wire>>
            /\ ret' = result
    /\ UNCHANGED <<app_state, client_state, inbox, exc, nops>>
    /\ UNCHANGED setVars
    /\ UNCHANGED aside

\* _handle_http, chunked response: what the except clause sends once the
\* start message is out
ChunkedTooLate_nothing == <<>>

ChunkedTooLate == <<BodyMsg(<<>>, FALSE)>>

ChunkedFailure_always500(sent, err) == Error500(err, "chunked response")

ChunkedFailure_endOnly(sent, err) == ChunkedTooLate

\* _handle_http, chunked response: what the except clause sends
ChunkedFailure(sent, err) ==
    IF ~sent THEN Error500(err, "chunked response") ELSE ChunkedTooLate

\* _handle_http, chunked response: one turn of "async for chunk in body",
\* the end of the loop, or the except clause
SendChunked ==
    /\ pc = "chunked"
    /\ IF gen = <<>>
       THEN /\ wire' = Append(wire, BodyMsg(<<>>, FALSE))
            /\ pc' = "returned"
            /\ last' = Call("chunked end", "")
            /\ UNCHANGED <<log, start_is_sent, gen>>
       ELSE LET chunk == Head(gen)
            IN  IF chunk.t \in {"str", "bytes"}
                THEN /\ wire' = wire
                          \o (IF ~start_is_sent THEN <<start>> ELSE <<>>)
                          \o <<BodyMsg(IF chunk.t = "str" THEN Encode(chunk.v)
                                       ELSE chunk.v, TRUE)>>
                     /\ start_is_sent' = TRUE
                     /\ gen' = Tail(gen)
                     /\ last' = Call("chunk", chunk.t)
                     /\ UNCHANGED <<log, pc>>
                ELSE LET err == IF chunk = GenRaise THEN Exc("Exception", "woops")
                                ELSE Exc("TypeError", "Body chunk must be str or bytes")
                     IN  /\ log' = Append(log, LogRec("chunked response", err))
                         /\ wire' = wire \o ChunkedFailure(start_is_sent, err)
                         /\ pc' = "returned"
                         /\ last' = Call("chunked failed", chunk.t)
                         /\ UNCHANGED <<start_is_sent, gen>>
    /\ UNCHANGED <<app_state, client_state, inbox, exc, nops, start, ret>>
    /\ UNCHANGED setVars
    /\ UNCHANGED aside

\* the server cancels the task while it is suspended in the handler or in
\* the async generator
Cancel ==
    /\ \/ pc = "handler" /\ exc = NoExc
       \/ pc = "chunked"
    /\ pc' = "cancelled"
    /\ last' = Call("cancel", "")
    /\ UNCHANGED <<app_state, client_state, wire, inbox, exc, log, nops,
                   start_is_sent, gen, start, ret>>
    /\ UNCHANGED setVars
    /\ UNCHANGED aside

\* the field _body of an HttpRequest: None, or the bytes cached
NoBody == [set |-> FALSE, v |-> <<>>]

SomeBody(v) == [set |-> TRUE, v |-> v]

\* ------------------------------------- HttpRequest objects on their own
\* One HttpRequest: its fields (client_state, wakeup_event, body), the
\* position of the task that uses it (pc), the three tasks of
\* sleep_while_connected (timer, waiter, receiver), what its transport will
\* still deliver (inbox) and how its latest call ended (outcome).  The
\* history of the wakeup() calls is kept in woken (one was made during the
\* current sleep), bcast (one was made during the current sleep by a loop
\* over a RequestSet) and stale (one was made after the event was created
\* and outside a sleep, before the current sleep).  read is how the latest
\* read of the body ended, read_cs and read_eob the client state and
\* whether the end of the body had been received when it was called; got
\* and drained are the positions, in what the client sends (script), of the
\* chunks returned to the handler and of those dropped during a sleep.
\* reading tells whether the latest read is an iter_body or a get_body, body
\* is the field _body (the positions of the chunks joined in it) and chunks
\* the local list of the get_body in progress; send_cs and send_as are the
\* client and application states in which the latest send() was called.
NewHttpRequest(script) ==
    [client_state |-> CONNECTED, wakeup_event |-> "None", pc |-> "idle",
     timer |-> "none", waiter |-> "none", receiver |-> "none",
     inbox |-> script, outcome |-> "", nsleeps |-> 0,
     woken |-> FALSE, bcast |-> FALSE, stale |-> FALSE,
     nreads |-> 0, read |-> "", script |-> script, eob |-> FALSE,
     got |-> <<>>, drained |-> <<>>, read_cs |-> CONNECTED, read_eob |-> FALSE,
     reading |-> "", body |-> NoBody, chunks |-> <<>>,
     send_cs |-> CONNECTED, send_as |-> CONNECTED]

\* HttpRequest._receive_chunk() on the object o, once the transport delivers
ReceiveChunk(o) ==
    LET message == Head(o.inbox)
        mt == IF message.type = "None" THEN "http.disconnect" ELSE message.type
    IN  IF mt = "http.request"
        THEN [o EXCEPT !.inbox = Tail(o.inbox),
                       !.client_state = IF ~message.more_body THEN DONE ELSE @,
                       !.eob = @ \/ ~message.more_body]
        ELSE [o EXCEPT !.inbox = Tail(o.inbox), !.client_state = DISCONNECTED]

\* the position in the script of the message that receive() returns next
Position(o) == Len(o.script) - Len(o.inbox) + 1

IsChunk(message) == message.type = "http.request"

\* sleep_while_connected, "self._wakeup_event.clear()"
ClearedEvent_kept(ev) == IF ev = "None" THEN "clear" ELSE ev

ClearedEvent(ev) == "clear"

\* the number of sleep_while_connected calls made on the requests of S
RECURSIVE SleepsMade(_)
SleepsMade(S) ==
    IF S = {} THEN 0
    ELSE LET r == CHOOSE x \in S : TRUE
         IN  http[r].nsleeps + SleepsMade(S \ {r})

\* sleep_while_connected up to the await: the state check, the event and the
\* three tasks of wait_for_any_then_cancel_the_rest
SleepEnter(r) ==
    /\ http[r].pc = "idle"
    /\ SleepsMade(Reqs) < MaxSleeps
    /\ IF http[r].client_state = DISCONNECTED
       THEN http' = [http EXCEPT ![r].outcome = "OSError",
                                 ![r].timer = "none",
                                 ![r].waiter = "none",
                                 ![r].receiver = "none",
                                 ![r].woken = FALSE,
                                 ![r].bcast = FALSE,
                                 ![r].nsleeps = @ + 1]
       ELSE http' = [http EXCEPT ![r].wakeup_event = ClearedEvent(@),
                                 ![r].pc = "sleeping",
                                 ![r].timer = "pending",
                                 ![r].waiter = "pending",
                                 ![r].receiver = "pending",
                                 ![r].outcome = "",
                                 ![r].woken = FALSE,
                                 ![r].bcast = FALSE,
                                 ![r].nsleeps = @ + 1]

\* the task of sleep(seconds) completes
TimerFire(r) ==
    /\ http[r].timer = "pending"
    /\ http' = [http EXCEPT ![r].timer = "done"]

\* the task of self._wakeup_event.wait() completes
WaiterRun(r) ==
    /\ http[r].waiter = "pending"
    /\ http[r].wakeup_event = "set"
    /\ http' = [http EXCEPT ![r].waiter = "done"]

\* one turn of _receive_until_disconnect
ReceiverRun(r) ==
    /\ http[r].receiver = "pending"
    /\ http[r].inbox # <<>>
    /\ LET o == ReceiveChunk(http[r])
       IN  http' = [http EXCEPT ![r] =
                [o EXCEPT !.receiver = IF o.client_state = DISCONNECTED
                                       THEN "done" ELSE "pending",
                          !.drained = IF IsChunk(Head(http[r].inbox))
                                      THEN Append(@, Position(http[r])) ELSE @]]

AnyTaskDone(o) == "done" \in {o.timer, o.waiter, o.receiver}

Cancelled_atOnce(t) == IF t = "pending" THEN "cancelled" ELSE t

\* wait_for_any_then_cancel_the_rest, "task.cancel()": the cancellation is
\* requested; the task stays pending until the event loop runs it
Cancelled(t) == IF t = "pending" THEN "cancelling" ELSE t

\* the event loop runs a task whose cancellation was requested
Delivered_to(t) == IF t = "cancelling" THEN "cancelled" ELSE t

\* sleep_while_connected, the check after the await
ResumeOutcome_silent(o) == "returned"

ResumeOutcome(o) ==
    IF o.client_state = DISCONNECTED THEN "DisconnectedError" ELSE "returned"

\* sleep_while_connected after the await: the pending tasks are cancelled
\* and a disconnect seen by the receiver is raised
SleepResume(r) ==
    /\ http[r].pc = "sleeping"
    /\ AnyTaskDone(http[r])
    /\ http' = [http EXCEPT ![r].pc = "idle",
                            ![r].stale = FALSE,
                            ![r].timer = Cancelled(@),
                            ![r].waiter = Cancelled(@),
                            ![r].receiver = Cancelled(@),
                            ![r].outcome = ResumeOutcome(http[r])]

\* the number of body reads made on the requests of S
RECURSIVE ReadsMade(_)
ReadsMade(S) ==
    IF S = {} THEN 0
    ELSE LET r == CHOOSE x \in S : TRUE
         IN  http[r].nreads + ReadsMade(S \ {r})

\* the event loop runs the tasks of r whose cancellation was requested
CancelDelivered(r) ==
    /\ "cancelling" \in {http[r].timer, http[r].waiter, http[r].receiver}
    /\ http' = [http EXCEPT ![r].timer = Delivered_to(@),
                            ![r].waiter = Delivered_to(@),
                            ![r].receiver = Delivered_to(@)]

AlreadyConsumed_never(o) == FALSE

\* iter_body, "# Check status"
AlreadyConsumed(o) == o.client_state = DONE

\* a new iter_body() (also the one of get_body) up to the
\* "await self._receive()" of _receive_chunk; kind names the caller
IterBodyEnter(o0, kind) ==
    LET o == [o0 EXCEPT !.nreads = @ + 1,
                        !.reading = kind,
                        !.read_cs = o0.client_state,
                        !.read_eob = o0.eob]
    IN  IF AlreadyConsumed(o)
        THEN [o EXCEPT !.read = "OSError: already consumed"]
        ELSE IF o.client_state = DISCONNECTED
        THEN [o EXCEPT !.read = "OSError: already disconnected"]
        ELSE [o EXCEPT !.pc = "receiving", !.read = ""]

\* the handler calls iter_body() and asks for a chunk
ReceiveCall(r) ==
    /\ http[r].pc = "idle"
    /\ ReadsMade(Reqs) < MaxReads
    /\ http' = [http EXCEPT ![r] = IterBodyEnter(@, "iter")]

\* get_body, "if self._body is None"
BodyIsCached_never(o) == FALSE

BodyIsCached(o) == o.body.set

\* the handler calls get_body(): the cached body, or a new iter_body()
GetBodyCall(r) ==
    /\ http[r].pc = "idle"
    /\ ReadsMade(Reqs) < MaxReads
    /\ IF BodyIsCached(http[r])
       THEN http' = [http EXCEPT ![r].reading = "get",
                                 ![r].nreads = @ + 1,
                                 ![r].read_cs = http[r].client_state,
                                 ![r].read_eob = http[r].eob,
                                 ![r].read = "returned"]
       ELSE http' = [http EXCEPT ![r] =
                IterBodyEnter([@ EXCEPT !.chunks = <<>>], "get")]

\* _receive_chunk after "await self._receive()": iter_body hands the chunk
\* to the handler; get_body keeps it and reads on until the body is done
ReceiveReturn(r) ==
    /\ http[r].pc = "receiving"
    /\ http[r].inbox # <<>>
    /\ LET o == ReceiveChunk(http[r])
           pos == Position(http[r])
           chunk == IsChunk(Head(http[r].inbox))
           o1 == [o EXCEPT !.got = IF chunk THEN Append(@, pos) ELSE @,
                           !.chunks = IF chunk /\ o.reading = "get"
                                      THEN Append(@, pos) ELSE @]
       IN  IF o1.client_state = DISCONNECTED
           THEN http' = [http EXCEPT ![r] =
                    [o1 EXCEPT !.pc = "idle", !.read = "DisconnectedError"]]
           ELSE IF o1.reading = "get" /\ o1.client_state = CONNECTED
           THEN http' = [http EXCEPT ![r] = o1]
           ELSE IF o1.reading = "get"
           THEN http' = [http EXCEPT ![r] =
                    [o1 EXCEPT !.pc = "idle", !.read = "returned",
                               !.body = SomeBody(o1.chunks)]]
           ELSE http' = [http EXCEPT ![r] =
                    [o1 EXCEPT !.pc = "idle", !.read = "returned"]]

\* the handler of r, between its sleeps and reads, sends a piece of the
\* response body
TaskSend(r) ==
    /\ http[r].pc = "idle"
    /\ nops < MaxSends
    /\ nops' = nops + 1
    /\ \E more \in BOOLEAN : send(PyBytes(<<120>>), more)
    /\ http' = [http EXCEPT ![r].send_cs = http[r].client_state,
                            ![r].send_as = app_state]
    /\ UNCHANGED <<pc, client_state, inbox, log, start_is_sent, gen, start, ret>>

\* HttpRequest.wakeup() on the object o
WakeupOf_inverted(o) == o

WakeupOf(o) ==
    IF o.wakeup_event # "None" THEN [o EXCEPT !.wakeup_event = "set"] ELSE o

\* the record of a wakeup() call on o; loop tells whether a loop over a
\* RequestSet made it
Noted(o, o0, loop) ==
    IF o0.pc = "sleeping"
    THEN [o EXCEPT !.woken = TRUE, !.bcast = @ \/ loop]
    ELSE [o EXCEPT !.stale = @ \/ (o0.wakeup_event # "None")]

\* another task calls request.wakeup()
Wakeup(r) ==
    http' = [http EXCEPT ![r] = Noted(WakeupOf(@), @, FALSE)]

\* "for r in waiting_requests: await r.wakeup()": wakeup() never suspends,
\* so the loop runs in one piece
Broadcast(s) ==
    /\ s_[s] # {}
    /\ http' = [r \in Reqs |-> IF r \in s_[s]
                               THEN Noted(WakeupOf(http[r]), http[r], TRUE)
                               ELSE http[r]]

SleepScripts ==
    { <<>>,
      <<HttpRequestMsg(<<97>>, FALSE), HttpDisconnect>>,
      <<NoneMsg>> }

IdleHttp == [r \in Reqs |-> NewHttpRequest(<<>>)]

\* what the client sends to a request that sleeps and reads in turn
TaskScripts ==
    SleepScripts
    \cup { <<HttpRequestMsg(<<97>>, TRUE), HttpRequestMsg(<<98>>, FALSE)>>,
           <<HttpRequestMsg(<<97>>, TRUE), HttpRequestMsg(<<98>>, FALSE), HttpDisconnect>>,
           <<HttpRequestMsg(<<97>>, TRUE), HttpDisconnect>> }

\* ---------------------------------------------------------------------
\* HttpRequest.get_body and iter_body, on a request whose handler reads the
\* body.  script is what the client sends, nrecv counts the calls of the
\* transport's receive(), first is the value of the first get_body() that
\* returned, result is how the latest call ended, eob tells that the end of
\* the body was received.

NoResult ==
    [op |-> "", limit |-> 0, kind |-> "", value |-> <<>>, nrecv0 |-> 0]

Result(op, limit, kind, value, nrecv0) ==
    [op |-> op, limit |-> limit, kind |-> kind, value |-> value,
     nrecv0 |-> nrecv0]

NewBodyRequest(script) ==
    [client_state |-> CONNECTED, inbox |-> script, _body |-> NoBody,
     script |-> script, nrecv |-> 0, ncalls |-> 0, first |-> NoBody,
     result |-> NoResult, eob |-> FALSE]

\* get_body, "if self._body is None"
BodyIsNone_falsy(b) == ~b.set \/ b.v = <<>>

BodyIsNone(b) == ~b.set

\* the loop of get_body over iter_body(): the pair of the object and of the
\* way the loop ends, with the value it leaves for self._body
RECURSIVE ReadBody(_, _, _, _)
ReadBody(o, limit, nbytes, chunks) ==
    IF o.client_state = DISCONNECTED
    THEN <<o, "OSError", <<>>>>
    ELSE IF o.inbox = <<>>
    THEN <<o, "blocked", <<>>>>
    ELSE LET message == Head(o.inbox)
             o1 == [ReceiveChunk(o) EXCEPT !.nrecv = @ + 1]
         IN  IF message.type # "http.request"
             THEN <<o1, "DisconnectedError", <<>>>>
             ELSE IF nbytes + Len(message.body) > limit
             THEN <<o1, "TooLarge", <<>>>>
             ELSE IF o1.client_state # CONNECTED
             THEN <<o1, "returned", chunks \o message.body>>
             ELSE ReadBody(o1, limit, nbytes + Len(message.body),
                           chunks \o message.body)

\* HttpRequest.get_body(limit) on the object o
get_body(o, limit) ==
    IF BodyIsNone(o._body)
    THEN IF o.client_state = DONE
         THEN <<o, "OSError", <<>>>>
         ELSE LET rd == ReadBody(o, limit, 0, <<>>)
              IN  IF rd[2] = "returned"
                  THEN <<[rd[1] EXCEPT !._body = SomeBody(rd[3])], "returned", rd[3]>>
                  ELSE rd
    ELSE <<o, "returned", o._body.v>>

\* "async for chunk in request.iter_body(): break" on the object o
iter_chunk(o) ==
    IF o.client_state = DONE \/ o.client_state = DISCONNECTED
    THEN <<o, "OSError", <<>>>>
    ELSE IF o.inbox = <<>>
    THEN <<o, "blocked", <<>>>>
    ELSE LET message == Head(o.inbox)
             o1 == [ReceiveChunk(o) EXCEPT !.nrecv = @ + 1]
         IN  IF message.type # "http.request"
             THEN <<o1, "DisconnectedError", <<>>>>
             ELSE <<o1, "returned", message.body>>

Called(o, op, limit, out) ==
    [out[1] EXCEPT !.ncalls = @ + 1,
                   !.first = IF op = "get_body" /\ out[2] = "returned" /\ ~o.first.set
                             THEN SomeBody(out[3]) ELSE @,
                   !.result = Result(op, limit, out[2], out[3], o.nrecv)]

CanCall == req.ncalls < MaxCalls /\ req.result.kind # "blocked"

\* the handler awaits request.get_body(limit)
BodyGet(limit) ==
    /\ CanCall
    /\ req' = Called(req, "get_body", limit, get_body(req, limit))

\* the handler reads one chunk with iter_body()
BodyIter ==
    /\ CanCall
    /\ req' = Called(req, "iter_body", 0, iter_chunk(req))

Chunks == { <<>>, <<97>>, <<98, 99>> }

Limits == 0..MaxLimit

\* the bodies a client sends: every chunk but the last has more_body set
RECURSIVE BodyOf(_)
BodyOf(cs) ==
    IF Len(cs) = 0 THEN <<>>
    ELSE <<HttpRequestMsg(Head(cs), Len(cs) > 1)>> \o BodyOf(Tail(cs))

ChunkLists == UNION { [1..n -> Chunks] : n \in 1..MaxBodyChunks }

\* a complete body, with the disconnect that may follow it, or a body that
\* the disconnect cuts short
BodyScripts ==
    { BodyOf(cs) : cs \in ChunkLists }
    \cup { BodyOf(cs) \o <<HttpDisconnect>> : cs \in ChunkLists }
    \cup { <<HttpRequestMsg(c, TRUE), HttpDisconnect>> : c \in Chunks }

IdleReq == NewBodyRequest(<<>>)

\* ---------------------------------------------------------------------
\* WebsocketRequest and BaseApplication._handle_websocket.  The states of a
\* WebsocketRequest are CONNECTING, CONNECTED and DISCONNECTED (the closed
\* state, of either side).  wire holds the messages handed to the
\* transport's send(), inbox the messages its receive() will still deliver,
\* script all that it delivers, from the start,
\* pc the position of the driver, exc the error a call raised in the
\* handler, not yet handled.  accepted tells that an accept() returned,
\* naccepts counts the accept() calls, last describes the latest call: who
\* made it, how it ended, the message it took from the transport and the
\* object as it was before the call.  iter is the state of the handler's
\* loop over receive_iter(), yielded the values the loop got, iter0 the
\* number of messages delivered before the loop began and iter_cs0 the client
\* state then.  escaped is the exception that leaves the driver.

WsOut(type, payload) == [type |-> type, payload |-> payload]

\* an inbound message; bytes and text are the values that
\* message.get("bytes", None) and message.get("text", None) give
WsIn(type) == [type |-> type, bytes |-> PyNone, text |-> PyNone]

WsReceiveMsg(bytes, text) ==
    [type |-> "websocket.receive", bytes |-> bytes, text |-> text]

NoCall ==
    [op |-> "", by |-> "", data |-> "", kind |-> "", got |-> "",
     cs0 |-> CONNECTING, as0 |-> CONNECTING, nwire0 |-> 0, ninbox0 |-> 0,
     accepted0 |-> FALSE, naccepts0 |-> 0, value |-> PyNone]

NewWebsocketRequest(script) ==
    [client_state |-> CONNECTING, app_state |-> CONNECTING,
     wire |-> <<>>, inbox |-> script, script |-> script,
     pc |-> "handler", exc |-> "",
     log |-> <<>>, nops |-> 0, result |-> "", accepted |-> FALSE,
     naccepts |-> 0, last |-> NoCall,
     iter |-> "", yielded |-> <<>>, iter0 |-> 0, iter_cs0 |-> CONNECTING,
     escaped |-> ""]

\* the outcome of a call: the object, how the call ended, the type of the
\* message it received
Out(o, kind, got) == <<o, kind, got>>

\* "self._client_state = DISCONNECTED", on websocket.disconnect
ClientGone_unset(o) == o

ClientGone(o) == [o EXCEPT !.client_state = DISCONNECTED]

\* accept, "if self._app_state == CONNECTING"
CanAccept_always(o) == TRUE

CanAccept(o) == o.app_state = CONNECTING

\* accept, "# Accept from our side"
AcceptFromOurSide(o, got) ==
    IF CanAccept(o)
    THEN Out([o EXCEPT !.wire = Append(@, WsOut("websocket.accept", "None")),
                       !.app_state = CONNECTED], "ok", got)
    ELSE Out(o, "OSError", got)

\* WebsocketRequest.accept() on the object o; with client state CONNECTING
\* it returns once the transport delivers a message
ws_accept(o) ==
    IF o.client_state = CONNECTING
    THEN LET mt == Head(o.inbox).type
             o1 == [o EXCEPT !.inbox = Tail(@)]
         IN  IF mt = "websocket.connect"
             THEN AcceptFromOurSide([o1 EXCEPT !.client_state = CONNECTED], mt)
             ELSE IF mt = "websocket.disconnect"
             THEN Out(ClientGone(o1), "DisconnectedError", mt)
             ELSE Out(o1, "OSError", mt)
    ELSE IF o.client_state = DISCONNECTED
    THEN Out(o, "OSError", "")
    ELSE AcceptFromOurSide(o, "")

\* send, "if self._client_state == DISCONNECTED"
SendToGone_never(o) == FALSE

SendToGone(o) == o.client_state = DISCONNECTED

\* the message that send() composes: a dict is sent as the bytes of its JSON
WsMessage(data) ==
    IF data = "str" THEN WsOut("websocket.send", "text")
    ELSE WsOut("websocket.send", "bytes")

\* WebsocketRequest.send(data) on the object o; data is the type of the value
ws_send(o, data) ==
    IF data \notin {"bytes", "str", "dict"}
    THEN Out(o, "TypeError", "")
    ELSE IF SendToGone(o)
    THEN Out(o, "OSError", "")
    ELSE IF o.app_state = CONNECTED
    THEN Out([o EXCEPT !.wire = Append(@, WsMessage(data))], "ok", "")
    ELSE Out(o, "OSError", "")

\* WebsocketRequest.receive() on the object o; with client state CONNECTED
\* it returns once the transport delivers a message
ws_receive(o) ==
    IF o.client_state = CONNECTED
    THEN LET mt == Head(o.inbox).type
             o1 == [o EXCEPT !.inbox = Tail(@)]
         IN  IF mt = "websocket.receive"
             THEN Out(o1, "ok", mt)
             ELSE IF mt = "websocket.disconnect"
             THEN Out(ClientGone(o1), "DisconnectedError", mt)
             ELSE Out(o1, "OSError", mt)
    ELSE Out(o, "OSError", "")

\* WebsocketRequest.close() on the object o
ws_close_both(o) ==
    Out([o EXCEPT !.wire = Append(@, WsOut("websocket.close", "1000")),
                  !.app_state = DISCONNECTED,
                  !.client_state = DISCONNECTED], "ok", "")

ws_close(o) ==
    Out([o EXCEPT !.wire = Append(@, WsOut("websocket.close", "1000")),
                  !.app_state = DISCONNECTED], "ok", "")

\* Python truth of a bytes, str or None value
Truthy(v) == v.t # "NoneType" /\ v.v # <<>>

\* receive, "message.get("bytes", None) or message.get("text", None) or b"""
ReceiveValue(message) ==
    IF Truthy(message.bytes) THEN message.bytes
    ELSE IF Truthy(message.text) THEN message.text
    ELSE PyBytes(<<>>)

\* the object after a call: what the call did, and the notes on the call
WsCalled(o, op, by, data, out) ==
    [out[1] EXCEPT
        !.accepted = @ \/ (op = "accept" /\ out[2] = "ok"),
        !.naccepts = IF op = "accept" THEN @ + 1 ELSE @,
        !.last = [op |-> op, by |-> by, data |-> data, kind |-> out[2],
                  got |-> out[3], cs0 |-> o.client_state,
                  as0 |-> o.app_state, nwire0 |-> Len(o.wire),
                  ninbox0 |-> Len(o.inbox), accepted0 |-> o.accepted,
                  naccepts0 |-> o.naccepts,
                  value |-> IF op = "receive" /\ out[2] = "ok"
                            THEN ReceiveValue(Head(o.inbox)) ELSE PyNone]]

\* the handler makes a call: an error is raised inside the handler
HandlerCalled(o, op, data, out) ==
    [WsCalled(o, op, "handler", data, out) EXCEPT
        !.nops = @ + 1,
        !.exc = IF out[2] = "ok" THEN "" ELSE out[2]]

WsRunning ==
    /\ ws.pc = "handler"
    /\ ws.exc = ""
    /\ ws.iter # "running"
    /\ ws.nops < MaxWsOps

\* a call that has to receive returns when the transport has a message
Delivers(o, state) == o.client_state = state => o.inbox # <<>>

WsAccept ==
    /\ WsRunning
    /\ Delivers(ws, CONNECTING)
    /\ ws' = HandlerCalled(ws, "accept", "", ws_accept(ws))

WsSend(data) ==
    /\ WsRunning
    /\ ws' = HandlerCalled(ws, "send", data, ws_send(ws, data))

WsReceive ==
    /\ WsRunning
    /\ Delivers(ws, CONNECTED)
    /\ ws' = HandlerCalled(ws, "receive", "", ws_receive(ws))

WsClose ==
    /\ WsRunning
    /\ ws' = HandlerCalled(ws, "close", "", ws_close(ws))

\* the handler catches the error that a call raised
WsCatch ==
    /\ ws.pc = "handler"
    /\ ws.exc # ""
    /\ ws' = [ws EXCEPT !.exc = ""]

\* _handle_websocket, "except Exception as err": the error leaves the handler
WsExcept ==
    /\ ws.pc = "handler"
    /\ ws.exc # ""
    /\ ws' = [ws EXCEPT !.pc = "finally",
                        !.log = Append(@, ws.exc \o " in websocket handler")]

\* the handler begins "async for m in request.receive_iter()"
WsIterStart ==
    /\ WsRunning
    /\ ws' = [ws EXCEPT !.iter = "running",
                        !.yielded = <<>>,
                        !.iter0 = Len(ws.script) - Len(ws.inbox),
                        !.iter_cs0 = ws.client_state,
                        !.nops = @ + 1]

\* one turn of the loop of receive_iter(): receive() returns a value that is
\* yielded, raises DisconnectedError and the loop ends, or raises another
\* error that leaves the generator
WsIterStep ==
    /\ ws.pc = "handler"
    /\ ws.iter = "running"
    /\ Delivers(ws, CONNECTED)
    /\ LET out == ws_receive(ws)
           o == WsCalled(ws, "receive", "handler", "", out)
       IN  ws' = IF out[2] = "ok"
                 THEN [o EXCEPT !.yielded = Append(@, ReceiveValue(Head(ws.inbox)))]
                 ELSE IF out[2] = "DisconnectedError"
                 THEN [o EXCEPT !.iter = "ended"]
                 ELSE [o EXCEPT !.iter = "raised", !.exc = out[2]]

\* the handler ends with an exception that "except Exception" does not
\* catch: the task is cancelled while the handler is suspended
WsCancel ==
    /\ ws.pc = "handler"
    /\ ws.exc = ""
    /\ ws' = [ws EXCEPT !.pc = "finally", !.exc = "CancelledError",
                        !.iter = IF @ = "running" THEN "cancelled" ELSE @]

\* the handler returns
WsReturn(result) ==
    /\ ws.pc = "handler"
    /\ ws.exc = ""
    /\ ws.iter # "running"
    /\ ws' = [ws EXCEPT !.pc = "finally", !.result = result]

\* WebsocketRequest.close() on the object o, when the transport's send()
\* raises: a server that has closed the connection already
ws_close_failed(o) == Out(o, "RuntimeError", "")

\* _handle_websocket, "except Exception: pass" around the driver's close
Dropped_raised(kind) == IF kind = "ok" THEN "" ELSE kind

Dropped(kind) == ""

\* _handle_websocket, the error text logged for a result that is not None
ShouldReturnNoneText == "A websocket handler should return None"

\* _handle_websocket, "if result is not None"
ShouldReturnNone_unchecked(result) == FALSE

ShouldReturnNone(result) == result # "None"

\* _handle_websocket, "finally": the close of the driver, whose errors are
\* dropped; then the exception of the handler goes on, or the handler's
\* result is checked
WsFinally(fails) ==
    /\ ws.pc = "finally"
    /\ LET out == IF fails THEN ws_close_failed(ws) ELSE ws_close(ws)
           o == WsCalled(ws, "close", "driver", "", out)
           dropped == Dropped(out[2])
       IN  ws' = [o EXCEPT
                    !.pc = "done",
                    !.escaped = IF dropped # "" THEN dropped
                                ELSE IF ws.exc = "CancelledError" THEN ws.exc
                                ELSE "",
                    !.log = IF dropped = "" /\ ws.exc = "" /\ ShouldReturnNone(ws.result)
                            THEN Append(@, ShouldReturnNoneText)
                            ELSE @]

WsSendData == {"bytes", "str", "dict", "int"}

WsResults == {"None", "value"}

\* what the transport delivers: websocket.connect, the client's messages and
\* its disconnect, which a server repeats to a later receive(); or a
\* disconnect at once
WsPayloads ==
    { WsReceiveMsg(PyNone, PyStr(<<104>>)), WsReceiveMsg(PyBytes(<<98>>), PyNone),
      WsReceiveMsg(PyNone, PyStr(<<>>)) }

\* the sequences of n messages that a client sends
ReceiveMsgs(n) == [1..n -> WsPayloads]

ClientMsgs == UNION { ReceiveMsgs(n) : n \in 0..MaxWsMsgs }

WsScripts ==
    { <<WsIn("websocket.connect")>> \o msgs : msgs \in ClientMsgs }
    \cup { <<WsIn("websocket.connect")>> \o msgs
              \o <<WsIn("websocket.disconnect"), WsIn("websocket.disconnect")>> :
           msgs \in ClientMsgs }
    \cup { <<WsIn("websocket.disconnect"), WsIn("websocket.disconnect")>> }

IdleWs == NewWebsocketRequest(<<>>)

UnsetStart == StartMsg(0, <<>>)

\* "result" before the handler has returned
Unreturned == Resp(FALSE, <<>>)

\* ------------------------------------------ normalize_response on its own
\* One response object and the calls made on it: input is the object,
\* response the argument of the latest call (the object, or the tuple that
\* the call before returned), out and prev the outcomes of the latest call
\* and of the one before.
NoNorm == [ok |-> FALSE, status |-> PyNone, headers |-> PyNone, body |-> PyNone,
           err |-> NoExc]

NewNorm(response) ==
    [input |-> response, response |-> response, out |-> NoNorm, prev |-> NoNorm,
     calls |-> 0]

IdleNorm == NewNorm(Unreturned)

\* the tuple that normalize_response returned
Returned3(out) == Resp(TRUE, <<out.status, out.headers, out.body>>)

\* normalize_response(response), once more on the same object
Normalize ==
    /\ norm.calls < MaxNormCalls
    /\ norm' = [norm EXCEPT !.response = norm.input,
                            !.prev = norm.out,
                            !.out = normalize_response(norm.input),
                            !.calls = @ + 1]

\* normalize_response(normalize_response(response))
NormalizeOutput ==
    /\ norm.calls < MaxNormCalls
    /\ norm.out.ok
    /\ norm' = [norm EXCEPT !.response = Returned3(norm.out),
                            !.prev = norm.out,
                            !.out = normalize_response(Returned3(norm.out)),
                            !.calls = @ + 1]

\* --------------------------------------- a loop over a RequestSet
\* The task that runs "for r in waiting_requests: await r.send(msg)" while
\* the tasks of other exchanges use the set.  state is the position of the
\* loop, set the RequestSet, used the size of the WeakSet's data when the
\* iterator was made, pending the number of dead members whose removal the
\* WeakSet has put off, seen the members handed out, handed the latest of
\* them, gone the exchanges whose receive() has seen the disconnect of
\* their peer.  stayed (the members since the start of the loop) and
\* handed_gone (a member was handed out after its peer was gone) are history.
NewBcast ==
    [state |-> "idle", set |-> "s1", used |-> 0, pending |-> 0, seen |-> {},
     stayed |-> {}, handed |-> "none", handed_gone |-> FALSE, gone |-> {},
     nloops |-> 0]

IdleBcast == NewBcast

\* ------------------------------------------------- the lifespan exchange
\* The task that runs _handle_lifespan: pc is its position, script what the
\* server's receive() returns in turn, inbox what it will still return,
\* sent the types of the messages given to send(), log the log records.
NewLifespan(script) ==
    [pc |-> "loop", script |-> script, inbox |-> script, sent |-> <<>>, log |-> <<>>]

IdleLife == [NewLifespan(<<>>) EXCEPT !.pc = "none"]

LifeEnds_unknown(type) == type # "lifespan.startup"

\* _handle_lifespan: the branch that returns
LifeEnds(type) == type = "lifespan.shutdown"

\* _handle_lifespan: one turn of the loop, from receive() to the send()
LifespanStep ==
    /\ life.pc = "loop"
    /\ life.inbox # <<>>
    /\ LET type == Head(life.inbox)
       IN  life' = [life EXCEPT
             !.inbox = Tail(@),
             !.sent = IF type = "lifespan.startup"
                      THEN Append(@, "lifespan.startup.complete")
                      ELSE IF type = "lifespan.shutdown"
                      THEN Append(@, "lifespan.shutdown.complete")
                      ELSE @,
             !.log = IF type = "lifespan.startup"
                     THEN Append(@, "Server is starting up")
                     ELSE IF type = "lifespan.shutdown"
                     THEN Append(@, "Server is shutting down")
                     ELSE Append(@, "Unknown lifespan message"),
             !.pc = IF LifeEnds(type) THEN "done" ELSE @]

\* the task is cancelled while it waits in receive()
LifespanCancel ==
    /\ life.pc = "loop"
    /\ life' = [life EXCEPT !.pc = "cancelled"]

LifeTypes == {"lifespan.startup", "lifespan.shutdown", "lifespan.cleanup"}

LifeScripts == SeqsUpTo(LifeTypes, MaxLifeMsgs)

\* the responses that normalize_response is called on
NormInputs ==
    Results
    \cup {Resp(TRUE, <<>>)}
    \cup {Resp(TRUE, <<st, b>>) : st \in ResultStatuses, b \in TupleBodies}
    \cup {Resp(TRUE, <<PyInt(200), PyDict(<<>>), b, b>>) : b \in TupleBodies}

Init ==
    /\ pc = "handler"
    /\ app_state = CONNECTING
    /\ client_state = CONNECTED
    /\ wire = <<>>
    /\ inbox \in ClientScripts
    /\ exc = NoExc
    /\ log = <<>>
    /\ nops = 0
    /\ start_is_sent = FALSE
    /\ gen = <<>>
    /\ start = UnsetStart
    /\ ret = Unreturned
    /\ s_ = [s \in SetIds |-> {}]
    /\ request_sets = [r \in Reqs |-> {}]
    /\ live = Reqs
    /\ destroyed = [r \in Reqs |-> 0]
    /\ torn = {}
    /\ last = Call("", "")
    /\ http = IdleHttp
    /\ req = IdleReq
    /\ ws = IdleWs
    /\ norm = IdleNorm
    /\ life = IdleLife
    /\ bc = IdleBcast
    /\ shared = IdleShared

Next ==
    \/ HandlerAccept
    \/ HandlerSend
    \/ HandlerIterBody
    \/ HandlerSetAdd
    \/ HandlerRaise
    \/ HandlerCatch
    \/ HandleHttpExcept
    \/ HandleHttpResult
    \/ SendChunked
    \/ Cancel

Spec == Init /\ [][Next]_vars

\* ------------------------------------------- RequestSet used on its own
\* RequestSet.__iter__ / __len__: the members of the WeakSet
Members(s) == s_[s]

SetAdd ==
    /\ \E s \in SetIds, r \in live : add(s, r) /\ last' = Call("add", r)
    /\ UNCHANGED <<live, destroyed>>
    /\ UNCHANGED httpVars
    /\ UNCHANGED aside

SetDiscard ==
    /\ \E s \in SetIds, r \in live : discard(s, r) /\ last' = Call("discard", r)
    /\ UNCHANGED <<request_sets, live, destroyed, torn>>
    /\ UNCHANGED httpVars
    /\ UNCHANGED aside

SetClear ==
    /\ \E s \in SetIds : clear(s) /\ last' = Call("clear", s)
    /\ UNCHANGED <<request_sets, live, destroyed, torn>>
    /\ UNCHANGED httpVars
    /\ UNCHANGED aside

\* the teardown of a request, as the tests call it
Destroy ==
    /\ \E r \in live :
        /\ destroyed[r] < MaxDestroy
        /\ _destroy(r)
        /\ last' = Call("_destroy",
                        IF \A s \in SetIds : r \in s_[s] THEN "member of all"
                        ELSE IF \E s \in SetIds : r \in s_[s] THEN "member of some"
                        ELSE "member of none")
    /\ UNCHANGED live
    /\ UNCHANGED httpVars
    /\ UNCHANGED aside

\* the last reference to a request goes away: the WeakSets drop it
Collect ==
    /\ \E r \in live :
        /\ live' = live \ {r}
        /\ s_' = [s \in SetIds |-> s_[s] \ {r}]
        /\ request_sets' = [request_sets EXCEPT ![r] = {}]
        /\ last' = Call("collect", r)
    /\ UNCHANGED <<destroyed, torn>>
    /\ UNCHANGED httpVars
    /\ UNCHANGED aside

\* the size of the set object that the WeakSet keeps its references in
DataSize(b) == Cardinality(s_[b.set]) + b.pending

\* set iterator, "Set changed size during iteration"
SizeChanged(b) == DataSize(b) # b.used

\* WeakSet.__iter__: a reference is handed out if its object is alive
HandsOut(r) == r \in live

\* next() of the iterator and, for a member, the call of its send() up to
\* the await; b is the loop after iter()
LoopNext(b) ==
    IF SizeChanged(b)
    THEN bc' = [b EXCEPT !.state = "raised", !.pending = 0, !.handed = "none"]
    ELSE LET C == {r \in s_[b.set] \ b.seen : HandsOut(r)}
         IN  IF C = {}
             THEN bc' = [b EXCEPT !.state = "ended", !.pending = 0, !.handed = "none"]
             ELSE \E r \in C :
                    bc' = [b EXCEPT !.state = IF r \in b.gone THEN "send failed"
                                              ELSE "suspended",
                                    !.seen = @ \cup {r},
                                    !.handed = r,
                                    !.handed_gone = @ \/ r \in b.gone]

\* "for r in waiting_requests:" up to the first await
LoopStart ==
    /\ bc.state \in {"idle", "ended", "raised", "send failed"}
    /\ bc.nloops < MaxLoops
    /\ \E s \in SetIds :
          LoopNext([bc EXCEPT !.set = s, !.used = Cardinality(s_[s]), !.pending = 0,
                              !.seen = {}, !.stayed = s_[s], !.handed = "none",
                              !.nloops = @ + 1])
    /\ UNCHANGED setVars

\* the send() returns and the loop goes on
LoopStep ==
    /\ bc.state = "suspended"
    /\ LoopNext(bc)
    /\ UNCHANGED setVars

\* what a change of the sets by another task leaves of the loop's history
Touched(b, after) ==
    IF b.state = "suspended" THEN [b EXCEPT !.stayed = @ \cap after[b.set]] ELSE b

\* another task calls add(); WeakSet.add first drops the dead members
LoopSetAdd ==
    /\ \E s \in SetIds, r \in live :
          /\ add(s, r)
          /\ bc' = [Touched(bc, s_') EXCEPT !.pending = IF s = bc.set THEN 0 ELSE @]
    /\ UNCHANGED <<live, destroyed>>

LoopSetDiscard ==
    /\ \E s \in SetIds, r \in live : discard(s, r)
    /\ bc' = Touched(bc, s_')
    /\ UNCHANGED <<request_sets, live, destroyed, torn>>

LoopSetClear ==
    /\ \E s \in SetIds : clear(s)
    /\ bc' = [Touched(bc, s_') EXCEPT !.pending = 0]
    /\ UNCHANGED <<request_sets, live, destroyed, torn>>

\* the teardown of another exchange
LoopDestroy ==
    /\ \E r \in live :
          /\ destroyed[r] < MaxDestroy
          /\ _destroy(r)
    /\ bc' = Touched(bc, s_')
    /\ UNCHANGED live

\* the receive() of another exchange sees the disconnect of its peer
PeerGone ==
    /\ \E r \in live \ bc.gone : bc' = [bc EXCEPT !.gone = @ \cup {r}]
    /\ UNCHANGED setVars

\* the last reference to the request of an exchange goes away; during a
\* loop the WeakSet puts the removal from its data off
LoopCollect ==
    /\ \E r \in live :
          /\ live' = live \ {r}
          /\ s_' = [s \in SetIds |-> s_[s] \ {r}]
          /\ request_sets' = [request_sets EXCEPT ![r] = {}]
          /\ bc' = [Touched(bc, s_') EXCEPT
                      !.pending = IF bc.state = "suspended" /\ r \in s_[bc.set]
                                  THEN @ + 1 ELSE @]
    /\ UNCHANGED <<destroyed, torn>>

InitSet ==
    /\ pc = "none"
    /\ app_state = CONNECTING
    /\ client_state = CONNECTED
    /\ wire = <<>>
    /\ inbox = <<>>
    /\ exc = NoExc
    /\ log = <<>>
    /\ nops = 0
    /\ start_is_sent = FALSE
    /\ gen = <<>>
    /\ start = UnsetStart
    /\ ret = Unreturned
    /\ s_ = [s \in SetIds |-> {}]
    /\ request_sets = [r \in Reqs |-> {}]
    /\ live = Reqs
    /\ destroyed = [r \in Reqs |-> 0]
    /\ torn = {}
    /\ last = Call("", "")
    /\ http = IdleHttp
    /\ req = IdleReq
    /\ ws = IdleWs
    /\ norm = IdleNorm
    /\ life = IdleLife
    /\ bc = IdleBcast
    /\ shared = IdleShared

NextSet ==
    \/ SetAdd
    \/ SetDiscard
    \/ SetClear
    \/ Destroy
    \/ Collect

SpecSet == InitSet /\ [][NextSet]_vars

\* ------------------------------------------- sleep_while_connected, wakeup
InitSleep ==
    /\ pc = "none"
    /\ app_state = CONNECTED
    /\ client_state = CONNECTED
    /\ wire = <<>>
    /\ inbox = <<>>
    /\ exc = NoExc
    /\ log = <<>>
    /\ nops = 0
    /\ start_is_sent = FALSE
    /\ gen = <<>>
    /\ start = UnsetStart
    /\ ret = Unreturned
    /\ \E m \in SUBSET Reqs :
          /\ s_ = [s \in SetIds |-> IF s = "s1" THEN m ELSE {}]
          /\ request_sets = [r \in Reqs |-> IF r \in m THEN {"s1"} ELSE {}]
    /\ live = Reqs
    /\ destroyed = [r \in Reqs |-> 0]
    /\ torn = {}
    /\ last = Call("", "")
    /\ http \in [Reqs -> {NewHttpRequest(script) : script \in SleepScripts}]
    /\ req = IdleReq
    /\ ws = IdleWs
    /\ norm = IdleNorm
    /\ life = IdleLife
    /\ bc = IdleBcast
    /\ shared = IdleShared

SleepFrame == UNCHANGED <<httpVars, setVars, last, req, ws, norm, life, bc, shared>>

NextSleep ==
    \/ \E r \in Reqs : SleepEnter(r) /\ SleepFrame
    \/ \E r \in Reqs : TimerFire(r) /\ SleepFrame
    \/ \E r \in Reqs : WaiterRun(r) /\ SleepFrame
    \/ \E r \in Reqs : ReceiverRun(r) /\ SleepFrame
    \/ \E r \in Reqs : SleepResume(r) /\ SleepFrame
    \/ \E r \in Reqs : Wakeup(r) /\ SleepFrame
    \/ \E s \in SetIds : Broadcast(s) /\ SleepFrame

SpecSleep == InitSleep /\ [][NextSleep]_vars

\* the event loop runs every task that is ready; timers and calls of
\* wakeup() are left to the environment
FairSleep ==
    /\ SpecSleep
    /\ \A r \in Reqs : WF_vars(WaiterRun(r) /\ SleepFrame)
    /\ \A r \in Reqs : WF_vars(ReceiverRun(r) /\ SleepFrame)
    /\ \A r \in Reqs : WF_vars(SleepResume(r) /\ SleepFrame)

\* one request whose handler sleeps and reads the body in turn
InitTasks ==
    /\ pc = "none"
    /\ app_state = CONNECTED
    /\ client_state = CONNECTED
    /\ wire = <<>>
    /\ inbox = <<>>
    /\ exc = NoExc
    /\ log = <<>>
    /\ nops = 0
    /\ start_is_sent = FALSE
    /\ gen = <<>>
    /\ start = UnsetStart
    /\ ret = Unreturned
    /\ s_ = [s \in SetIds |-> {}]
    /\ request_sets = [r \in Reqs |-> {}]
    /\ live = Reqs
    /\ destroyed = [r \in Reqs |-> 0]
    /\ torn = {}
    /\ last = Call("", "")
    /\ \E script \in TaskScripts :
          http = [r \in Reqs |-> IF r = TheReq THEN NewHttpRequest(script)
                                 ELSE NewHttpRequest(<<>>)]
    /\ req = IdleReq
    /\ ws = IdleWs
    /\ norm = IdleNorm
    /\ life = IdleLife
    /\ bc = IdleBcast
    /\ shared = IdleShared

NextTasks ==
    \/ SleepEnter(TheReq) /\ SleepFrame
    \/ TimerFire(TheReq) /\ SleepFrame
    \/ WaiterRun(TheReq) /\ SleepFrame
    \/ ReceiverRun(TheReq) /\ SleepFrame
    \/ SleepResume(TheReq) /\ SleepFrame
    \/ CancelDelivered(TheReq) /\ SleepFrame
    \/ ReceiveCall(TheReq) /\ SleepFrame
    \/ GetBodyCall(TheReq) /\ SleepFrame
    \/ ReceiveReturn(TheReq) /\ SleepFrame
    \/ Wakeup(TheReq) /\ SleepFrame
    \/ TaskSend(TheReq) /\ UNCHANGED <<setVars, req, ws, norm, life, bc, shared>>

SpecTasks == InitTasks /\ [][NextTasks]_vars

BcastFrame == UNCHANGED <<httpVars, last, http, req, ws, norm, life, shared>>

NextBcast ==
    \/ LoopStart /\ BcastFrame
    \/ LoopStep /\ BcastFrame
    \/ LoopSetAdd /\ BcastFrame
    \/ LoopSetDiscard /\ BcastFrame
    \/ LoopSetClear /\ BcastFrame
    \/ LoopDestroy /\ BcastFrame
    \/ PeerGone /\ BcastFrame
    \/ LoopCollect /\ BcastFrame

\* InitSet is also the start of the exchanges around a loop over a set
SpecBcast == InitSet /\ [][NextBcast]_vars

\* what the handlers return with the dict, and what the dict holds at first
SharedBodies ==
    TupleBodies \cup {PyBytes(<<>>), PyBytes(<<104, 105>>), PyStr(<<60, 104, 116, 109, 108, 62>>),
                      PyDict(<<Item("x", "object", "x")>>), PyGenerator}

SharedHeaders ==
    { <<>>, <<Item("x-a", "str", "1")>>, <<Item("content-type", "str", "text/x")>>,
      <<Item("content-length", "str", "5")>> }

\* a handler whose header dict is made once and returned in every exchange
InitShared ==
    /\ pc = "none"
    /\ app_state = CONNECTING
    /\ client_state = CONNECTED
    /\ wire = <<>>
    /\ inbox = <<>>
    /\ exc = NoExc
    /\ log = <<>>
    /\ nops = 0
    /\ start_is_sent = FALSE
    /\ gen = <<>>
    /\ start = UnsetStart
    /\ ret = Unreturned
    /\ s_ = [s \in SetIds |-> {}]
    /\ request_sets = [r \in Reqs |-> {}]
    /\ live = Reqs
    /\ destroyed = [r \in Reqs |-> 0]
    /\ torn = {}
    /\ last = Call("", "")
    /\ http = IdleHttp
    /\ req = IdleReq
    /\ ws = IdleWs
    /\ norm = IdleNorm
    /\ life = IdleLife
    /\ bc = IdleBcast
    /\ shared \in { NewShared(h) : h \in SharedHeaders }

SharedFrame == UNCHANGED <<httpVars, setVars, last, http, req, ws, norm, life, bc>>

NextShared == \E body \in SharedBodies : SharedExchange(body) /\ SharedFrame

SpecShared == InitShared /\ [][NextShared]_vars

InitBody ==
    /\ pc = "none"
    /\ app_state = CONNECTED
    /\ client_state = CONNECTED
    /\ wire = <<>>
    /\ inbox = <<>>
    /\ exc = NoExc
    /\ log = <<>>
    /\ nops = 0
    /\ start_is_sent = FALSE
    /\ gen = <<>>
    /\ start = UnsetStart
    /\ ret = Unreturned
    /\ s_ = [s \in SetIds |-> {}]
    /\ request_sets = [r \in Reqs |-> {}]
    /\ live = Reqs
    /\ destroyed = [r \in Reqs |-> 0]
    /\ torn = {}
    /\ last = Call("", "")
    /\ http = IdleHttp
    /\ req \in { NewBodyRequest(script) : script \in BodyScripts }
    /\ ws = IdleWs
    /\ norm = IdleNorm
    /\ life = IdleLife
    /\ bc = IdleBcast
    /\ shared = IdleShared

BodyFrame == UNCHANGED <<httpVars, setVars, last, http, ws, norm, life, bc, shared>>

NextBody ==
    \/ \E limit \in Limits : BodyGet(limit) /\ BodyFrame
    \/ BodyIter /\ BodyFrame

SpecBody == InitBody /\ [][NextBody]_vars

InitWs ==
    /\ pc = "none"
    /\ app_state = CONNECTED
    /\ client_state = CONNECTED
    /\ wire = <<>>
    /\ inbox = <<>>
    /\ exc = NoExc
    /\ log = <<>>
    /\ nops = 0
    /\ start_is_sent = FALSE
    /\ gen = <<>>
    /\ start = UnsetStart
    /\ ret = Unreturned
    /\ s_ = [s \in SetIds |-> {}]
    /\ request_sets = [r \in Reqs |-> {}]
    /\ live = Reqs
    /\ destroyed = [r \in Reqs |-> 0]
    /\ torn = {}
    /\ last = Call("", "")
    /\ http = IdleHttp
    /\ req = IdleReq
    /\ ws \in { NewWebsocketRequest(script) : script \in WsScripts }
    /\ norm = IdleNorm
    /\ life = IdleLife
    /\ bc = IdleBcast
    /\ shared = IdleShared

WsFrame == UNCHANGED <<httpVars, setVars, last, http, req, norm, life, bc, shared>>

NextWs ==
    \/ WsAccept /\ WsFrame
    \/ \E data \in WsSendData : WsSend(data) /\ WsFrame
    \/ WsReceive /\ WsFrame
    \/ WsClose /\ WsFrame
    \/ WsCatch /\ WsFrame
    \/ WsExcept /\ WsFrame
    \/ \E result \in WsResults : WsReturn(result) /\ WsFrame
    \/ \E fails \in BOOLEAN : WsFinally(fails) /\ WsFrame
    \/ WsIterStart /\ WsFrame
    \/ WsIterStep /\ WsFrame
    \/ WsCancel /\ WsFrame

SpecWs == InitWs /\ [][NextWs]_vars

InitNorm ==
    /\ pc = "none"
    /\ app_state = CONNECTING
    /\ client_state = CONNECTED
    /\ wire = <<>>
    /\ inbox = <<>>
    /\ exc = NoExc
    /\ log = <<>>
    /\ nops = 0
    /\ start_is_sent = FALSE
    /\ gen = <<>>
    /\ start = UnsetStart
    /\ ret = Unreturned
    /\ s_ = [s \in SetIds |-> {}]
    /\ request_sets = [r \in Reqs |-> {}]
    /\ live = Reqs
    /\ destroyed = [r \in Reqs |-> 0]
    /\ torn = {}
    /\ last = Call("", "")
    /\ http = IdleHttp
    /\ req = IdleReq
    /\ ws = IdleWs
    /\ norm \in { NewNorm(response) : response \in NormInputs }
    /\ life = IdleLife
    /\ bc = IdleBcast
    /\ shared = IdleShared

NormFrame == UNCHANGED <<httpVars, setVars, last, http, req, ws, life, bc, shared>>

NextNorm ==
    \/ Normalize /\ NormFrame
    \/ NormalizeOutput /\ NormFrame

SpecNorm == InitNorm /\ [][NextNorm]_vars

InitLife ==
    /\ pc = "none"
    /\ app_state = CONNECTING
    /\ client_state = CONNECTED
    /\ wire = <<>>
    /\ inbox = <<>>
    /\ exc = NoExc
    /\ log = <<>>
    /\ nops = 0
    /\ start_is_sent = FALSE
    /\ gen = <<>>
    /\ start = UnsetStart
    /\ ret = Unreturned
    /\ s_ = [s \in SetIds |-> {}]
    /\ request_sets = [r \in Reqs |-> {}]
    /\ live = Reqs
    /\ destroyed = [r \in Reqs |-> 0]
    /\ torn = {}
    /\ last = Call("", "")
    /\ http = IdleHttp
    /\ req = IdleReq
    /\ ws = IdleWs
    /\ norm = IdleNorm
    /\ life \in { NewLifespan(script) : script \in LifeScripts }
    /\ bc = IdleBcast
    /\ shared = IdleShared

LifeFrame == UNCHANGED <<httpVars, setVars, last, http, req, ws, norm, bc, shared>>

NextLife ==
    \/ LifespanStep /\ LifeFrame
    \/ LifespanCancel /\ LifeFrame

SpecLife == InitLife /\ [][NextLife]_vars

\* ---------------------------------------------------------------- claims
IsStart(m) == m.type = "http.response.start"

IsBody(m) == m.type = "http.response.body"

IsFinal(m) == IsBody(m) /\ ~m.more_body

Starts == {i \in 1..Len(wire) : IsStart(wire[i])}

Finished == pc \in {"returned", "cancelled"}

\* C1: at most one http.response.start message is ever emitted for an HTTP
\* exchange, whatever the handler does.
C1_AtMostOneStart == Cardinality(Starts) <= 1

\* C2: every http.response.body message on the wire is preceded by an
\* http.response.start message.
C2_BodyAfterStart ==
    \A i \in 1..Len(wire) : IsBody(wire[i]) => \E j \in 1..(i - 1) : IsStart(wire[j])

\* C3: once a body message with more_body false has been emitted, no further
\* message is emitted for the exchange.
C3_NothingAfterFinal ==
    \A i \in 1..Len(wire) : IsFinal(wire[i]) => i = Len(wire)

C5_AppStateForward ==
    [][/\ app_state' >= app_state
       /\ ~(app_state = CONNECTING /\ app_state' = DONE)]_vars

\* the exchange went all the way to DONE, with receive-side failures
C5_Witness ==
    /\ app_state = DONE
    /\ client_state = DISCONNECTED
    /\ IsStart(wire[1])

\* C6: accept() in a state other than CONNECTING raises, emits no message
\* and leaves the application state unchanged.
C6_SecondAcceptRejected ==
    [][(nops' = nops + 1 /\ last'.op = "accept" /\ app_state # CONNECTING) =>
          /\ exc' = Exc("OSError", "Cannot accept an already accepted connection.")
          /\ wire' = wire
          /\ app_state' = app_state]_vars

\* an accept after the final chunk was rejected
C6_Witness ==
    /\ last.op = "accept"
    /\ exc = Exc("OSError", "Cannot accept an already accepted connection.")
    /\ app_state = DONE
    /\ Cardinality(Starts) = 1

\* C7 as stated: send() outside CONNECTED always raises the protocol error
\* (an OSError), whatever the data.
C7_SendAlwaysProtocolError ==
    [][(nops' = nops + 1 /\ last'.op = "send" /\ app_state # CONNECTED) =>
          /\ exc'.type = "OSError"
          /\ wire' = wire
          /\ app_state' = app_state]_vars

\* C7 amended: send() outside CONNECTED always raises, emits no message and
\* leaves the application state unchanged; the error is the protocol error
\* for str or bytes data and a TypeError for data of any other type.  And
\* send() in CONNECTED with str or bytes data emits the message.
C7_SendRejected ==
    [][(nops' = nops + 1 /\ last'.op = "send") =>
          IF app_state # CONNECTED
          THEN /\ exc' = IF last'.t \in {"str", "bytes"}
                         THEN IF app_state = CONNECTING
                              THEN Exc("OSError", "Cannot send before calling accept.")
                              ELSE Exc("OSError", "Cannot send to a closed connection.")
                         ELSE Exc("TypeError", "Can only send bytes/str over http")
               /\ wire' = wire
               /\ app_state' = app_state
          ELSE (exc' = NoExc) <=> (last'.t \in {"str", "bytes"})]_vars

\* a send of a dict before accept() was rejected with a TypeError
C7_Witness ==
    /\ last = Call("send", "dict")
    /\ exc.type = "TypeError"
    /\ app_state = CONNECTING
    /\ wire = <<>>

\* C8: a DisconnectedError that escapes the handler is not logged and is not
\* turned into a 500 response.
C8_DisconnectSwallowed ==
    (last = Call("handler raised", "DisconnectedError")) =>
        /\ log = <<>>
        /\ \A i \in Starts : wire[i].status # 500

\* C9: when the driver has finished, _destroy has run exactly once and no
\* RequestSet contains the exchange.
C9_TeardownOnce ==
    Finished =>
        /\ destroyed[TheReq] = 1
        /\ \A s \in SetIds : TheReq \notin Members(s)

\* C10: after a request's _destroy has run, no RequestSet contains or yields
\* it (until it is added again).
C10_TornAbsent == \A r \in torn : \A s \in SetIds : r \notin Members(s)

\* a request that was a member of every set was torn down while another
\* request stayed a member
C10_Witness ==
    /\ last = Call("_destroy", "member of all")
    /\ \E r \in torn : \E s \in SetIds : Members(s) \ {r} # {}

Sleeping(r) == http[r].pc = "sleeping"

HasDisconnect(q) == \E i \in 1..Len(q) : q[i].type \in {"http.disconnect", "None"}

\* the timeout elapsed, wakeup() was called, or the client disconnected
Happened(r) ==
    \/ http[r].timer = "done"
    \/ http[r].woken
    \/ HasDisconnect(http[r].inbox)
    \/ http[r].receiver = "done"

C11_Outcome ==
    \A r \in Reqs :
        /\ http[r].outcome = "DisconnectedError" => http[r].client_state = DISCONNECTED
        /\ http[r].outcome = "returned" =>
              /\ http[r].client_state # DISCONNECTED
              /\ "done" \in {http[r].timer, http[r].waiter}
        /\ Sleeping(r) => http[r].outcome = ""

\* C11: sleep_while_connected returns normally after the timeout or a
\* wakeup(), raises DisconnectedError when the client disconnected, and does
\* not stay suspended once one of the three has happened.
C11_SleepCompletes ==
    /\ []C11_Outcome
    /\ \A r \in Reqs : (Sleeping(r) /\ Happened(r)) ~> ~Sleeping(r)

\* a sleep ended by the disconnect alone, on a transport that returned None
C11_Witness ==
    \E r \in Reqs :
        /\ http[r].outcome = "DisconnectedError"
        /\ http[r].timer = "cancelling"
        /\ http[r].waiter = "cancelling"
        /\ http[r].receiver = "done"

\* C12: a wakeup() made outside sleep_while_connected does not shorten the
\* next sleep (the wait on the event ends only after a wakeup() made during
\* that sleep), and a second wakeup() changes nothing.
C12_WakeupNotQueued ==
    \A r \in Reqs :
        /\ (Sleeping(r) /\ ~http[r].woken) =>
              (http[r].wakeup_event = "clear" /\ http[r].waiter = "pending")
        /\ http[r].waiter = "done" => http[r].woken
        /\ WakeupOf(WakeupOf(http[r])) = WakeupOf(http[r])

\* a request sleeps on, although wakeup() was called on it before this sleep
C12_Witness ==
    \E r \in Reqs :
        /\ Sleeping(r)
        /\ http[r].stale
        /\ ~http[r].woken
        /\ http[r].wakeup_event = "clear"

WokenByLoop(r) == http[r].bcast

\* C13 as stated: a sleeping member of the set that the loop woke resumes and
\* returns normally.
C13_WokenReturnsNormally ==
    \A r \in Reqs :
        (~Sleeping(r) /\ WokenByLoop(r)) => http[r].outcome = "returned"

C13_Outcome ==
    \A r \in Reqs :
        /\ (Sleeping(r) /\ WokenByLoop(r)) => http[r].wakeup_event = "set"
        /\ (~Sleeping(r) /\ WokenByLoop(r)) =>
              http[r].outcome = IF http[r].client_state = DISCONNECTED
                                THEN "DisconnectedError" ELSE "returned"

\* C13 amended: every sleeping member of the set that the loop woke resumes
\* without its timer having to fire; it returns normally unless its client
\* has disconnected, and then it raises DisconnectedError.
C13_AllWokenResume ==
    /\ []C13_Outcome
    /\ \A r \in Reqs : (Sleeping(r) /\ WokenByLoop(r)) ~> ~Sleeping(r)

\* two members of the set were woken by the loop and both returned normally
\* with their timers still pending when they resumed
C13_Witness ==
    /\ Cardinality(s_["s1"]) >= 2
    /\ \A r \in s_["s1"] :
          /\ WokenByLoop(r)
          /\ http[r].outcome = "returned"
          /\ http[r].timer = "cancelling"
          /\ http[r].waiter = "done"

\* the bytes of the body that the client sends
RECURSIVE SentBody(_)
SentBody(script) ==
    IF script = <<>> THEN <<>>
    ELSE (IF Head(script).type = "http.request" THEN Head(script).body ELSE <<>>)
         \o SentBody(Tail(script))

\* the client sends its body to the end
SentWhole(script) ==
    \E i \in 1..Len(script) :
        script[i].type = "http.request" /\ ~script[i].more_body

TooLargeIff(res, script) ==
    /\ res.kind = "TooLarge" <=> Len(SentBody(script)) > res.limit
    /\ Len(SentBody(script)) <= res.limit =>
          (res.kind = "returned" /\ res.value = SentBody(script))

\* C14: get_body(limit=N) raises the too-large error if and only if the body
\* that the client sends is larger than N bytes, and returns the
\* concatenation of the chunks of a body of at most N bytes.
C14_TooLargeIffExceeds ==
    (req.result.op = "get_body" /\ SentWhole(req.script)) =>
        TooLargeIff(req.result, req.script)

\* C15: once get_body() has returned, every later get_body() returns the same
\* bytes and does not call the transport's receive().
C15_BodyCached ==
    [][(req.first.set /\ req'.ncalls = req.ncalls + 1
                      /\ req'.result.op = "get_body") =>
          /\ req'.result.kind = "returned"
          /\ req'.result.value = req.first.v
          /\ req'.nrecv = req.nrecv
          /\ req'.inbox = req.inbox]_vars

\* a later get_body() returned the empty body that the first one had returned
C15_Witness ==
    /\ req.first = SomeBody(<<>>)
    /\ req.ncalls >= 2
    /\ req.result.op = "get_body"
    /\ req.result.kind = "returned"
    /\ req.result.nrecv0 = req.nrecv
    /\ req.nrecv > 0

WsErrors == {"OSError", "DisconnectedError", "TypeError"}

\* the latest call put no message on the wire and took none from the transport
NoTraffic ==
    /\ Len(ws.wire) = ws.last.nwire0
    /\ Len(ws.inbox) = ws.last.ninbox0

\* C16: before an accept() has returned, send() and receive() raise, emit no
\* message and take no message from the transport.
C16_NothingBeforeAccept ==
    (ws.last.op \in {"send", "receive"} /\ ~ws.last.accepted0) =>
        (ws.last.kind \in WsErrors /\ NoTraffic)

Emitted(type) == { i \in 1..Len(ws.wire) : ws.wire[i].type = type }

\* the types of the messages that the transport has delivered so far
Delivered ==
    { ws.script[i].type : i \in 1..(Len(ws.script) - Len(ws.inbox)) }

\* C17: websocket.accept is emitted at most once and only after
\* websocket.connect was received; accept() raises DisconnectedError and
\* emits nothing when it receives websocket.disconnect, and every accept()
\* after the first raises and emits nothing.
C17_AcceptOnce ==
    /\ Cardinality(Emitted("websocket.accept")) <= 1
    /\ Emitted("websocket.accept") # {} => "websocket.connect" \in Delivered
    /\ (ws.last.op = "accept" /\ ws.last.got = "websocket.disconnect") =>
          (ws.last.kind = "DisconnectedError" /\ Len(ws.wire) = ws.last.nwire0)
    /\ (ws.last.op = "accept" /\ ws.last.naccepts0 >= 1) =>
          (ws.last.kind \in WsErrors /\ Len(ws.wire) = ws.last.nwire0)

\* a second accept() was refused after the first had emitted websocket.accept
C17_Witness ==
    /\ ws.last.op = "accept"
    /\ ws.last.naccepts0 >= 1
    /\ ws.last.accepted0
    /\ ws.last.kind = "OSError"
    /\ Cardinality(Emitted("websocket.accept")) = 1

SentToGone == ws.last.op = "send" /\ ws.last.cs0 = DISCONNECTED

C19_NothingAfterClose ==
    (ws.last.op \in {"send", "close"} /\ ws.last.as0 = DISCONNECTED) =>
        (ws.last.kind \in WsErrors /\ Len(ws.wire) = ws.last.nwire0)

C20_Receive ==
    /\ (ws.last.op = "receive" /\ ws.last.got = "websocket.disconnect") =>
          (ws.last.kind = "DisconnectedError" /\ ws.client_state = DISCONNECTED)
    /\ (ws.last.op = "receive" /\ ws.last.kind = "DisconnectedError") =>
          ws.last.got = "websocket.disconnect"
    /\ (ws.last.op = "receive" /\ ws.last.cs0 = DISCONNECTED) =>
          (ws.last.kind = "OSError" /\ NoTraffic)

\* C20: a receive() that gets websocket.disconnect raises DisconnectedError
\* and leaves the client state DISCONNECTED in the same step; the client
\* state then stays DISCONNECTED, and every later receive() raises the I/O
\* error and takes no message from the transport.
C20_ReceiveAfterDisconnect ==
    /\ []C20_Receive
    /\ [][ws.client_state = DISCONNECTED => ws'.client_state = DISCONNECTED]_vars

\* a receive() after the disconnect was refused while the transport had a
\* message to deliver
C20_Witness ==
    /\ ws.last.op = "receive"
    /\ ws.last.cs0 = DISCONNECTED
    /\ ws.last.kind = "OSError"
    /\ ws.last.accepted0
    /\ ws.inbox # <<>>

IsReceive(m) == m.type = "websocket.receive"

\* the payload of a message as the client sent it
SentValue(m) == IF m.text # PyNone THEN m.text ELSE m.bytes

\* the client messages delivered since the loop over receive_iter() began
DeliveredToLoop ==
    SelectSeq(SubSeq(ws.script, ws.iter0 + 1, Len(ws.script) - Len(ws.inbox)),
              IsReceive)

\* C21: a loop over receive_iter() that begins with the client connected
\* yields each client message, in the order received, and ends without
\* raising when the client disconnects.
C21_IterYieldsAll ==
    (ws.iter \in {"running", "ended", "raised"} /\ ws.iter_cs0 = CONNECTED) =>
        /\ ws.iter # "raised"
        /\ ws.yielded = [i \in 1..Len(DeliveredToLoop) |->
                            SentValue(DeliveredToLoop[i])]

\* C22: when the driver is done it has attempted request.close() after the
\* handler ended, whatever the handler did, and no error of that close
\* leaves the driver: the only exception that leaves it is one of the
\* handler that "except Exception" does not catch.
C22_DriverCloses ==
    ws.pc = "done" =>
        /\ ws.last.op = "close"
        /\ ws.last.by = "driver"
        /\ ws.escaped = IF ws.exc = "CancelledError" THEN ws.exc ELSE ""

\* the handler raised, the driver's close failed, and the driver returned
C22_Witness ==
    /\ ws.pc = "done"
    /\ ws.exc = "OSError"
    /\ ws.last.by = "driver"
    /\ ws.last.kind = "RuntimeError"
    /\ ws.escaped = ""

WsTypes == {"websocket.accept", "websocket.send", "websocket.close"}

\* C23: when the handler returned a value that is not None, the driver logs
\* the 'should return None' error once and does nothing else than its close:
\* the messages sent stay as they were, nothing is taken from the transport,
\* no HTTP message is emitted and the driver does not raise.
C23_NonNoneLogged ==
    [][(ws.pc = "finally" /\ ws'.pc = "done" /\ ws.exc = "" /\ ws.result # "None") =>
          /\ ws.log = <<>>
          /\ ws'.log = <<ShouldReturnNoneText>>
          /\ ws'.escaped = ""
          /\ ws'.wire \in {ws.wire, Append(ws.wire, WsOut("websocket.close", "1000"))}
          /\ \A i \in 1..Len(ws'.wire) : ws'.wire[i].type \in WsTypes
          /\ ws'.inbox = ws.inbox
          /\ ws'.client_state = ws.client_state]_vars

\* the handler accepted, sent a message and returned a value
C23_Witness ==
    /\ ws.pc = "done"
    /\ ws.result = "value"
    /\ ws.log = <<ShouldReturnNoneText>>
    /\ Len(ws.wire) = 3
    /\ ws.wire[1].type = "websocket.accept"
    /\ ws.wire[2].type = "websocket.send"
    /\ ws.wire[3].type = "websocket.close"

\* ------------------------------------------------ claims on HTTP responses
\* the body that the handler returned, and the response after normalization
ReturnedBody == ret.elems[Len(ret.elems)]

Normalized == normalize_response(ret)

ChunkBytes(c) == IF c.t = "str" THEN Encode(c.v) ELSE c.v

\* the handler returned without having called accept(), and the lazy body
\* has just failed
LazyFailed == pc = "returned" /\ last.op = "chunked failed" /\ app_state = CONNECTING

\* C24: when a lazy body raises or yields a chunk that is neither str nor
\* bytes after at least one chunk was sent, the start message already sent
\* (the handler's status and headers) stands, the chunks sent are the body,
\* one empty terminal chunk follows, and the error goes to the log only.
C24_LateFailureEndsBody ==
    (LazyFailed /\ start_is_sent) =>
        LET g == ReturnedBody.g
            k == Len(g) - Len(gen)
        IN  /\ k >= 1
            /\ start.status = Normalized.status.n
            /\ wire = <<start>> \o [i \in 1..k |-> BodyMsg(ChunkBytes(g[i]), TRUE)]
                               \o <<BodyMsg(<<>>, FALSE)>>
            /\ Len(log) = 1 /\ log[1].where = "chunked response"

C24_Witness ==
    /\ LazyFailed /\ start_is_sent
    /\ last.t = "<raise>"
    /\ Len(wire) = 3 /\ wire[1].status = 404
    /\ wire[2] = BodyMsg(<<102>>, TRUE)

\* C25: when a lazy body raises or yields an invalid chunk before any chunk
\* was sent, the handler's start message is not emitted: the client gets one
\* start message with status 500 and no headers, then one body message with
\* the error text.
C25_EarlyFailureIs500 ==
    (LazyFailed /\ ~start_is_sent) =>
        /\ Len(wire) = 2
        /\ wire[1] = StartMsg(500, <<>>)
        /\ start # wire[1]
        /\ IsFinal(wire[2]) /\ wire[2].text = log[1].err
        /\ wire[2].text.type \in {"Exception", "TypeError"}
        /\ Len(log) = 1 /\ log[1].where = "chunked response"

C25_Witness ==
    /\ LazyFailed /\ ~start_is_sent
    /\ last.t = "int"
    /\ start.status = 404 /\ start.headers # <<>>
    /\ wire[1].status = 500

\* C26: when the handler has called accept() (and send()) and then returns a
\* value other than None, the driver logs one usage error and sends nothing:
\* no second start message and no body made from the returned value.
C26_ReturnAfterAcceptReported ==
    [][(/\ pc = "handler" /\ last'.op = "handler returned"
        /\ app_state # CONNECTING
        /\ ret' # Resp(FALSE, <<PyNone>>))
       => /\ wire' = wire
          /\ Len(log') = Len(log) + 1]_vars

\* the handler raised, or the processing of its return value failed, and
\* nothing had been sent
FailedEarly ==
    /\ pc = "returned" /\ app_state = CONNECTING
    /\ \/ last.op = "handler raised" /\ exc.type # "DisconnectedError"
       \/ last.op = "handler returned" /\ ~ProcessOutput(ret).ok

\* C27: when the handler raises (not a disconnect) before any output, or
\* its return value cannot be normalized, the client gets one start message
\* with status 500 and an empty header list, then one body message with the
\* error text, and the log has exactly one record.
C27_CleanError ==
    FailedEarly =>
        LET err == IF last.op = "handler raised" THEN exc ELSE ProcessOutput(ret).err
            where == IF last.op = "handler raised" THEN "request handler"
                     ELSE "processing handler output"
        IN  /\ wire = <<StartMsg(500, <<>>), ErrorBodyMsg(err, where)>>
            /\ log = <<LogRec(where, err)>>

C27_Witness ==
    /\ FailedEarly
    /\ ret = Resp(TRUE, <<PyStr(<<50, 48, 48>>),
                          PyDict(<<Item("xx-foo", "str", "x")>>), PyStr(<<104, 233>>)>>)
    /\ wire[1].status = 500 /\ wire[1].headers = <<>>
    /\ wire[2].text.msg = "Status code must be an int"

\* the handler returned a complete body with a valid status and valid
\* headers, and it never called accept()
ReturnedWhole ==
    /\ pc = "returned" /\ last.op = "handler returned" /\ app_state = CONNECTING
    /\ ReturnedBody.t \in {"bytes", "str", "dict"}
    /\ ProcessOutput(ret).ok

EncodedBody ==
    IF ReturnedBody.t = "str" THEN Encode(ReturnedBody.v)
    ELSE IF ReturnedBody.t = "dict" THEN JsonDumps(ReturnedBody.h)
    ELSE ReturnedBody.v

\* the values of the content-length headers of a start message
ContentLengths(m) ==
    {m.headers[i][2] : i \in {j \in 1..Len(m.headers) : m.headers[j][1] = "content-length"}}

TwoMessages ==
    /\ Len(wire) = 2
    /\ IsStart(wire[1]) /\ wire[1].status = Normalized.status.n
    /\ wire[2] = BodyMsg(EncodedBody, FALSE)

\* C30 as stated: a handler that returns a complete body without calling
\* accept() gets two messages, a start message with the returned status and
\* a content-length header equal to the length of the encoded body, then
\* one body message with the whole encoded body.
C30_ContentLengthIsBodyLength ==
    ReturnedWhole =>
        /\ TwoMessages
        /\ ContentLengths(wire[1]) = {ToString(Len(EncodedBody))}

\* C30, amended: the content-length header is the length of the encoded
\* body unless the returned headers have a content-length of their own,
\* which is sent as it is.
C30_ContentLengthDefaulted ==
    ReturnedWhole =>
        LET h == Normalized.headers.h
        IN  /\ TwoMessages
            /\ ContentLengths(wire[1]) =
                  IF HasKey(h, "content-length")
                  THEN {h[i].v : i \in {j \in 1..Len(h) : h[j].k = "content-length"}}
                  ELSE {ToString(Len(EncodedBody))}

C30_Witness ==
    /\ ReturnedWhole
    /\ ReturnedBody = PyStr(<<104, 233>>)
    /\ wire[2].body = <<104, 195, 169>>
    /\ wire[1].status = 404
    /\ ContentLengths(wire[1]) = {"5"}

\* ------------------------------------------ claims on normalize_response
\* the response is the object itself, a value or a tuple of one to three
IsShape(r) == ~r.tuple \/ Len(r.elems) \in {1, 2, 3}

\* the 3-tuple that a response stands for, a 2-tuple being read as
\* (status, body) when it starts with an int and as (headers, body) otherwise
AsStated3(r) ==
    LET e == r.elems
    IN  IF r.tuple /\ Len(e) = 3 THEN e
        ELSE IF r.tuple /\ Len(e) = 2
        THEN IF e[1].t = "int" THEN <<e[1], PyDict(<<>>), e[2]>>
             ELSE <<PyInt(200), e[1], e[2]>>
        ELSE <<PyInt(200), PyDict(<<>>), e[1]>>

\* the 3-tuple that a response stands for, a 2-tuple being (headers, body)
Equivalent3(r) ==
    LET e == r.elems
    IN  IF r.tuple /\ Len(e) = 3 THEN e
        ELSE IF r.tuple /\ Len(e) = 2 THEN <<PyInt(200), e[1], e[2]>>
        ELSE <<PyInt(200), PyDict(<<>>), e[1]>>

Valid3(t) == t[1].t = "int" /\ t[2].t = "dict"

ShapeError(out) == ~out.ok /\ out.err.type = "ValueError"

\* the first call has been made on the response object
CalledOnInput == norm.calls >= 1 /\ norm.response = norm.input

\* C28 as stated: every valid shape, (status, body) among them, gives what
\* the equivalent 3-tuple with the defaults 200 and {} gives; another tuple
\* length, a status that is not an int or headers that are not a dict fail
\* with a shape error.
C28_ShapesAsStated ==
    CalledOnInput =>
        LET r == norm.input
            t == AsStated3(r)
        IN  IF IsShape(r) /\ Valid3(t)
            THEN norm.out.ok /\ <<norm.out.status, norm.out.headers, norm.out.body>> = t
            ELSE ShapeError(norm.out)

\* C28, amended: the shapes are body, (body,), (headers, body) and
\* (status, headers, body); a 2-tuple is never (status, body).
C28_ShapesEquivalent ==
    CalledOnInput =>
        LET r == norm.input
            t == Equivalent3(r)
        IN  IF IsShape(r) /\ Valid3(t)
            THEN norm.out.ok /\ <<norm.out.status, norm.out.headers, norm.out.body>> = t
            ELSE ShapeError(norm.out)

C28_Witness ==
    /\ CalledOnInput
    /\ norm.input = Resp(TRUE, <<PyInt(404), PyStr(<<104, 233>>)>>)
    /\ norm.out.err = Exc("ValueError", "Headers must be a dict")

\* C29: normalize_response gives the same on its own result, and on the
\* same response again, as it gave before, and the async generator of the
\* response is the unstarted one after any number of calls.
C29_Idempotent ==
    /\ (norm.calls >= 2 /\ norm.prev.ok) => norm.out = norm.prev
    /\ norm.out.ok => norm.out.body = norm.input.elems[Len(norm.input.elems)]

C29_Witness ==
    /\ norm.calls = MaxNormCalls
    /\ norm.response # norm.input
    /\ norm.input = Resp(TRUE, <<PyDict(<<>>), PyAsyncGen(<<PyStr(<<102>>), GenRaise>>)>>)
    /\ norm.out.body.g = <<PyStr(<<102>>), GenRaise>>

\* ------------------------------------------------- claims on the lifespan
\* the messages that receive() has returned so far
LifeDelivered == SubSeq(life.script, 1, Len(life.script) - Len(life.inbox))

IsKnownLife(type) == type \in {"lifespan.startup", "lifespan.shutdown"}

Complete(type) ==
    IF type = "lifespan.startup" THEN "lifespan.startup.complete"
    ELSE "lifespan.shutdown.complete"

\* C31: the lifespan handler has replied lifespan.startup.complete to every
\* lifespan.startup and lifespan.shutdown.complete to lifespan.shutdown, in
\* order; it has terminated exactly when the message it replied to last is
\* lifespan.shutdown; an unknown message gets no reply and the loop goes on.
C31_LifespanReplies ==
    life.pc \in {"loop", "done"} =>
        LET d == LifeDelivered
            known == SelectSeq(d, IsKnownLife)
        IN  /\ life.sent = [i \in 1..Len(known) |-> Complete(known[i])]
            /\ life.pc = "done" <=> (d # <<>> /\ d[Len(d)] = "lifespan.shutdown")
            /\ \A i \in 1..(Len(d) - 1) : d[i] # "lifespan.shutdown"
            /\ Len(life.log) = Len(d)

C31_Witness ==
    /\ life.pc = "done"
    /\ LifeDelivered = <<"lifespan.startup", "lifespan.cleanup", "lifespan.startup",
                         "lifespan.shutdown">>
    /\ life.sent = <<"lifespan.startup.complete", "lifespan.startup.complete",
                     "lifespan.shutdown.complete">>

\* ---------------------------------------- claims on tasks and interleaving
\* the receive() calls that are outstanding on the transport of the request
\* o: the one of its receiver task, as long as that task has not ended, and
\* the one of the handler
Outstanding(o) ==
    (IF o.receiver \in {"pending", "cancelling"} THEN 1 ELSE 0)
    + (IF o.pc = "receiving" THEN 1 ELSE 0)

\* C32: once sleep_while_connected has completed, the tasks that did not
\* finish first are no longer pending, and there are never two receive()
\* calls outstanding on the transport of a request.
C32_OneReceiveOutstanding ==
    \A r \in Reqs :
        /\ Outstanding(http[r]) <= 1
        /\ (http[r].pc = "receiving") =>
              "cancelling" \notin {http[r].timer, http[r].waiter, http[r].receiver}

\* C33: an add(), discard(), clear() or teardown made by another task while
\* a task is suspended in a loop over the set never makes the loop fail, and
\* a loop that has ended has handed out every exchange that was a member
\* from its start to its end.
C33_LoopSurvivesChanges ==
    /\ bc.state # "raised"
    /\ bc.state = "ended" => (bc.stayed \cap live) \subseteq bc.seen

\* C40: a task that iterates a RequestSet is never handed an exchange whose
\* receive() has already seen the disconnect of its peer, so the send() of
\* the iterating task never fails on such a member.
C40_NoGoneMemberHandedOut ==
    /\ ~bc.handed_gone
    /\ bc.state # "send failed"

\* ------------------------------------------- claims on reads and sleeps
\* no position occurs twice in the sequence q
NoRepeat(q) == \A i, j \in 1..Len(q) : q[i] = q[j] => i = j

Positions(q) == {q[i] : i \in 1..Len(q)}

\* every chunk went to the handler or was dropped in a sleep, once
AtMostOnce(o) ==
    /\ NoRepeat(o.got) /\ NoRepeat(o.drained)
    /\ Positions(o.got) \cap Positions(o.drained) = {}
    /\ \A i \in Positions(o.got) \cup Positions(o.drained) : IsChunk(o.script[i])

\* the latest read was called after the end of the body had been received
ReadAfterEnd(o) == o.nreads > 0 /\ o.reading = "iter" /\ o.read_eob

\* C34 as stated: every chunk is delivered at most once, what a sleep has
\* dropped is not returned later, and an iter_body() made after the end of
\* the body was received raises the 'already consumed' error and does not
\* read from the transport.
C34_ConsumedAfterEnd ==
    LET o == http[TheReq]
    IN  /\ AtMostOnce(o)
        /\ ReadAfterEnd(o) => o.read = "OSError: already consumed"

\* C34, amended: the error is 'already disconnected' when a disconnect was
\* seen after the end of the body.
C34_NoReadAfterEnd ==
    LET o == http[TheReq]
    IN  /\ AtMostOnce(o)
        /\ ReadAfterEnd(o) =>
              /\ o.pc # "receiving"
              /\ o.read = IF o.read_cs = DISCONNECTED
                          THEN "OSError: already disconnected"
                          ELSE "OSError: already consumed"

\* the sleep dropped the whole body and saw the disconnect, then the read failed
C34_Witness ==
    LET o == http[TheReq]
    IN  /\ ReadAfterEnd(o)
        /\ o.read = "OSError: already disconnected"
        /\ o.drained = <<1, 2>>
        /\ o.got = <<>>

\* the step is a call of sleep_while_connected on the request
SleepCalled == http'[TheReq].nsleeps = http[TheReq].nsleeps + 1

\* the step is a call of iter_body or get_body on the request
ReadCalled == http'[TheReq].nreads = http[TheReq].nreads + 1

\* the step is a call of send on the request
SendCalled == nops' = nops + 1

\* the step has raised the usage error and has left the transport alone
UsageErrorOnly ==
    /\ http'[TheReq].pc = "idle"
    /\ http'[TheReq].inbox = http[TheReq].inbox
    /\ http'[TheReq].client_state = DISCONNECTED

\* send() in the application state CONNECTED puts the piece on the wire
SendWorks ==
    SendCalled /\ app_state = CONNECTED =>
        /\ exc' = NoExc
        /\ Len(wire') = Len(wire) + 1
        /\ wire'[Len(wire')].body = <<120>>

\* a sleep_while_connected made after a disconnect was seen raises the
\* usage error and makes no task
SleepStops ==
    SleepCalled /\ http[TheReq].client_state = DISCONNECTED =>
        /\ UsageErrorOnly
        /\ http'[TheReq].outcome = "OSError"
        /\ http'[TheReq].receiver = "none"

\* C35 as stated: once the client state is DISCONNECTED, a call of
\* sleep_while_connected, iter_body or get_body raises the plain 'already
\* disconnected' error without a receive(), and send() still works while the
\* application state is CONNECTED.
C35_AllRaiseOnceGone ==
    [][ /\ SleepStops
        /\ SendWorks
        /\ ReadCalled /\ http[TheReq].client_state = DISCONNECTED =>
              /\ UsageErrorOnly
              /\ http'[TheReq].read = "OSError: already disconnected"
      ]_vars

\* C35, amended: a get_body() whose body is already cached returns the
\* cached body also after the disconnect.
C35_RaiseUnlessCached ==
    [][ /\ SleepStops
        /\ SendWorks
        /\ ReadCalled /\ http[TheReq].client_state = DISCONNECTED =>
              /\ UsageErrorOnly
              /\ http'[TheReq].read =
                    IF http'[TheReq].reading = "get" /\ http[TheReq].body.set
                    THEN "returned"
                    ELSE "OSError: already disconnected"
      ]_vars

\* after the disconnect the sleep and the read were refused, a send went
\* through and a get_body returned the cached body
C35_Witness ==
    LET o == http[TheReq]
    IN  /\ o.client_state = DISCONNECTED
        /\ o.outcome = "OSError"
        /\ o.send_cs = DISCONNECTED
        /\ last.op = "send"
        /\ exc = NoExc
        /\ wire # <<>>
        /\ o.reading = "get"
        /\ o.read_cs = DISCONNECTED
        /\ o.read = "returned"

\* the step is a call of the operation op on the websocket request
WsCallOf(op) == ws'.last # ws.last /\ ws'.last.op = op

\* C36: the client state and the application state of a websocket request
\* never move back; receive() leaves the application state alone, also when
\* it sees the disconnect, and close() leaves the client state alone; a
\* receive() made while the client is connected is not refused, whatever the
\* application state.
C36_StatesIndependent ==
    [][ /\ ws'.client_state >= ws.client_state
        /\ ws'.app_state >= ws.app_state
        /\ WsCallOf("receive") => ws'.app_state = ws.app_state
        /\ WsCallOf("close") => ws'.client_state = ws.client_state
        /\ WsCallOf("receive") /\ ws.client_state = CONNECTED =>
              ws'.last.kind \in {"ok", "DisconnectedError"}
      ]_vars

\* a message was received after the application closed the connection
C36_Witness ==
    /\ ws.last.op = "receive"
    /\ ws.last.kind = "ok"
    /\ ws.last.as0 = DISCONNECTED
    /\ ws.app_state = DISCONNECTED
    /\ ws.client_state = CONNECTED

\* the payload of a websocket.receive message, with the kind it was sent as
SentPayload(message) ==
    IF message.bytes # PyNone THEN message.bytes ELSE message.text

\* the message that the latest call of the websocket request has received
LastReceived == ws.script[Len(ws.script) - ws.last.ninbox0 + 1]

\* C37: a receive() that returns gives the payload of the message it
\* received, bytes for a binary message and str for a text message.
C37_ReceivedAsSent ==
    ws.last.op = "receive" /\ ws.last.kind = "ok" =>
        ws.last.value = SentPayload(LastReceived)

\* C38: the bytes that a get_body() returns are the whole body that the
\* client sent, whatever was read from the request before.
C38_WholeBody ==
    req.result.op = "get_body" /\ req.result.kind = "returned" =>
        req.result.value = SentBody(req.script)

\* the content-length values among the headers h
LengthsIn(h) == {h[i].v : i \in {j \in 1..Len(h) : h[j].k = "content-length"}}

\* C39: the dict that the handler returns as headers holds what the handler
\* put in it, and every exchange that sends a whole body gets the length of
\* its own body as content-length, unless the handler set a content-length.
C39_MappingUntouched ==
    /\ shared.headers = shared.made
    /\ \A i \in 1..Len(shared.outs) :
          LET x == shared.outs[i]
          IN  (x.out.ok /\ x.out.body.t = "bytes"
                        /\ ~HasKey(shared.made, "content-length")) =>
                 LengthsIn(x.out.headers) = {ToString(Len(x.out.body.v))}
====
